---- MODULE Spec2Model ----
(***************************************************************************)
(* NomadIQ itinerary core: the rules engine generateItineraryRules         *)
(* (services/itineraryService.js) and the local "AI" enricher              *)
(* enrichItineraryWithAI (services/itineraryAiService.js).                 *)
(*                                                                         *)
(* JavaScript values are modelled as tagged records with a uniform field   *)
(* set per kind of value, so that absent, null and ill-typed inputs are    *)
(* inputs like any other.  A JavaScript string is a sequence of atoms: the *)
(* atom " " is one whitespace character, every other atom is a fragment of *)
(* text that neither starts nor ends with whitespace.  Concatenation is    *)
(* \o, trim() strips " " atoms at both ends, a substring is a contiguous   *)
(* subsequence.  Instants are whole hours since the epoch.  The Spanish     *)
(* sentences of the templates are written without diacritics.              *)
(***************************************************************************)
EXTENDS Integers, Sequences, FiniteSets, TLC

VARIABLES tz, pc, trip, activities, result, itinerary, user, options, enriched,
          heap, trips, itineraries, clock, served, updating, deleting

vars == <<tz, pc, trip, activities, result, itinerary, user, options, enriched,
          heap, trips, itineraries, clock, served, updating, deleting>>

\* the state of a call of the two functions, and the state of the server
callVars == <<pc, trip, activities, result, itinerary, user, options, enriched,
              heap>>
storeVars == <<trips, itineraries, clock, served>>

\* the calls of updateItinerary and deleteItinerary that have started and
\* not returned yet
raceVars == <<updating, deleting>>

----------------------------------------------------------------------------
(* Bounds of the explored inputs *)

\* first calendar day (days since the epoch) used for trip dates
BaseDay == 10
\* length in days of the long trip that exceeds the 30-day cap
LongTrip == 40
\* the budgets tried
SmallBudget == 1
MidBudget == 600
BigBudget == 900

(* Program constants *)
DefaultDayCount == 3
MaxDayCount == 30
HoursPerDay == 24
FixedScore == 90

----------------------------------------------------------------------------
(* JavaScript values *)

SP == " "

\* string-or-undefined values (title, name, description, ids)
Str(s) == [k |-> "str", s |-> s]
Undef == [k |-> "undef", s |-> <<>>]
\* what a template literal `${v}` prints
ToText(v) == IF v.k = "str" THEN v.s ELSE <<"undefined">>
\* JavaScript truthiness of a string-or-undefined value
Truthy(v) == v.k = "str" /\ v.s # <<>>

\* number-or-other values (budget, day, estimatedCost)
Num(n) == [k |-> "num", n |-> n]
NoNum == [k |-> "undef", n |-> 0]
NumString(n) == [k |-> "str", n |-> n]

\* arrays, and the things that may stand where an array is expected
Arr(items) == [k |-> "arr", items |-> items]
NoArr == [k |-> "undef", items |-> <<>>]
NullArr == [k |-> "null", items |-> <<>>]

\* date inputs: an ISO string denoting the instant t, null, undefined, or a
\* string Date cannot parse
Iso(t) == [k |-> "iso", t |-> t]
NoDate == [k |-> "undef", t |-> 0]
NullDate == [k |-> "null", t |-> 0]
BadDate == [k |-> "bad", t |-> 0]

\* a YYYY-MM-DD string, named by its calendar day (days since the epoch)
DateStr(d) == [k |-> "str", d |-> d]
NoDateStr == [k |-> "undef", d |-> 0]

\* String.prototype.trim on a sequence of atoms
RECURSIVE TrimStart(_)
TrimStart(s) == IF s # <<>> /\ Head(s) = SP THEN TrimStart(Tail(s)) ELSE s

RECURSIVE TrimEnd(_)
TrimEnd(s) ==
  IF s # <<>> /\ s[Len(s)] = SP THEN TrimEnd(SubSeq(s, 1, Len(s) - 1)) ELSE s

Trim(s) == TrimEnd(TrimStart(s))

\* Array.prototype.join
RECURSIVE Join(_, _)
Join(items, sep) ==
  IF items = <<>> THEN <<>>
  ELSE IF Len(items) = 1 THEN items[1]
  ELSE items[1] \o sep \o Join(Tail(items), sep)

\* Array.prototype.slice(0, n)
Slice(items, n) == SubSeq(items, 1, IF Len(items) < n THEN Len(items) ELSE n)

\* String.prototype.includes
Includes(s, sub) ==
  \E i \in 0..(Len(s) - Len(sub)) : SubSeq(s, i + 1, i + Len(sub)) = sub

Min(a, b) == IF a < b THEN a ELSE b
Max(a, b) == IF a > b THEN a ELSE b

----------------------------------------------------------------------------
(* Date arithmetic of the runtime *)

\* new Date(v).getTime(): NaN for undefined and unparseable strings, 0 for null
ParseDate(v) ==
  CASE v.k = "iso" -> [valid |-> TRUE, t |-> v.t]
    [] v.k = "null" -> [valid |-> TRUE, t |-> 0]
    [] OTHER -> [valid |-> FALSE, t |-> 0]

\* The process time zone.  "UTC" has offset 0.  "DST" is a zone five hours
\* west of UTC that moves its clocks forward one hour at the instant DstStart.
DstStart == (BaseDay + 1) * HoursPerDay + 7
StdOffset == 0 - 5
DstOffset == 0 - 4

\* local time = UTC instant + offset
UtcToLocal(zone, t) ==
  IF zone = "UTC" THEN t
  ELSE IF t < DstStart THEN t + StdOffset ELSE t + DstOffset

\* the instant a local wall-clock time denotes
LocalToUtc(zone, x) ==
  IF zone = "UTC" THEN x
  ELSE IF x - StdOffset < DstStart THEN x - StdOffset ELSE x - DstOffset

\* buildDateString: local calendar day plus offset at the same wall-clock
\* time, printed as the UTC calendar day (toISOString().slice(0, 10))
buildDateString(zone, baseDate, offset) ==
  IF ~baseDate.valid THEN NoDateStr
  ELSE LET local == UtcToLocal(zone, baseDate.t)
           moved == local + offset * HoursPerDay
           utc == LocalToUtc(zone, moved)
       IN DateStr(utc \div HoursPerDay)

----------------------------------------------------------------------------
(* generateItineraryRules *)

\* the value returned by a call: either it threw, or it returned { days }
Threw == [threw |-> TRUE, days |-> <<>>]
Returned(days) == [threw |-> FALSE, days |-> days]

\* mutant: the slots in another order
timeSlotsReordered == <<"morning", "evening", "afternoon">>

timeSlots == <<"morning", "afternoon", "evening">>

maxActivitiesPerDay == Len(timeSlots)

\* the try block: start and end of the trip as Date objects.  Reading a
\* property of a null or undefined trip throws inside the try and is caught.
TripDates(t) ==
  IF t.k # "obj"
  THEN [ok |-> FALSE, start |-> ParseDate(NoDate), end |-> ParseDate(NoDate)]
  ELSE LET start == ParseDate(t.startDate)
           end == ParseDate(t.endDate)
       IN [ok |-> start.valid /\ end.valid /\ end.t >= start.t,
           start |-> start, end |-> end]

\* mutant: startDateObj assigned before the range is validated
startDateObjUnchecked(t) ==
  IF t.k = "obj" THEN TripDates(t).start ELSE ParseDate(NoDate)

\* startDateObj: the parsed start date, or null (an invalid date here)
startDateObj(t) ==
  IF TripDates(t).ok THEN TripDates(t).start ELSE ParseDate(NoDate)

\* mutant: the range counted without its last day
dayCountExclusive(t) ==
  IF ~TripDates(t).ok THEN DefaultDayCount
  ELSE LET diffMs == TripDates(t).end.t - TripDates(t).start.t
           diffDays == diffMs \div HoursPerDay
       IN Max(1, Min(diffDays, MaxDayCount))

\* dayCount: 3 by default, else the clamped inclusive length of the range
dayCount(t) ==
  IF ~TripDates(t).ok THEN DefaultDayCount
  ELSE LET diffMs == TripDates(t).end.t - TripDates(t).start.t
           diffDays == (diffMs \div HoursPerDay) + 1
       IN Max(1, Min(diffDays, MaxDayCount))

\* interests: the trip's list, or [] when it is not an array
tripInterests(t) == IF t.interests.k = "arr" THEN t.interests.items ELSE <<>>

hasBudget(t) == t.budget.k = "num" /\ t.budget.n > 0

\* mutant: the whole budget taken as the budget of each day
dailyBudgetUndivided(t) ==
  IF hasBudget(t) THEN [null |-> FALSE, num |-> t.budget.n, den |-> 1]
  ELSE [null |-> TRUE, num |-> 0, den |-> 1]

\* dailyBudget = budget / dayCount, kept as a fraction; null without a budget
dailyBudget(t) ==
  IF hasBudget(t) THEN [null |-> FALSE, num |-> t.budget.n, den |-> dayCount(t)]
  ELSE [null |-> TRUE, num |-> 0, den |-> 1]

\* Math.round(num / den) for a non-negative fraction: floor(num/den + 1/2)
Round(num, den) == (2 * num + den) \div (2 * den)

\* mutant: Math.floor in place of Math.round
perSlotBudgetFloor(t) ==
  LET daily == dailyBudget(t)
  IN IF ~daily.null /\ daily.num # 0
     THEN Num(daily.num \div (daily.den * Len(timeSlots)))
     ELSE NoNum

\* perSlotBudget = dailyBudget ? Math.round(dailyBudget / 3) : null
perSlotBudget(t) ==
  LET daily == dailyBudget(t)
  IN IF ~daily.null /\ daily.num # 0
     THEN Num(Round(daily.num, daily.den * Len(timeSlots)))
     ELSE NoNum

\* title.replace(/^Viaje a\s+/i, ''): the prefix goes only if whitespace follows
StripViajeA(s) ==
  IF Len(s) >= 2 /\ s[1] \in {"Viaje a", "viaje a"} /\ s[2] = SP
  THEN TrimStart(Tail(s))
  ELSE s

\* destinationName: '' for a non-string title, else the cleaned title, else
\* the title itself when cleaning leaves nothing
destinationName(t) ==
  IF t.title.k # "str" THEN <<>>
  ELSE LET cleaned == Trim(StripViajeA(t.title.s))
       IN IF cleaned # <<>> THEN cleaned ELSE t.title.s

\* `${destinationName || trip.title}`
destinationLabel(t) ==
  IF destinationName(t) # <<>> THEN destinationName(t) ELSE ToText(t.title)

\* mutant: every interest named, not the first two
buildInterestSentenceAll(t) ==
  IF Len(tripInterests(t)) = 0 THEN <<>>
  ELSE LET picked == Join([i \in 1..Len(tripInterests(t)) |->
                             <<tripInterests(t)[i]>>], <<SP, "y", SP>>)
       IN <<", con actividades pensadas para quienes disfrutan de", SP>>
            \o picked

buildInterestSentence(t) ==
  IF Len(tripInterests(t)) = 0 THEN <<>>
  ELSE LET picked == Join([i \in 1..Len(Slice(tripInterests(t), 2)) |->
                             <<tripInterests(t)[i]>>], <<SP, "y", SP>>)
       IN <<", con actividades pensadas para quienes disfrutan de", SP>>
            \o picked

timeOfDayLabel(timeOfDay) ==
  CASE timeOfDay = "morning" -> "la manana"
    [] timeOfDay = "afternoon" -> "la tarde"
    [] timeOfDay = "evening" -> "la noche"
    [] OTHER -> "el dia"

\* mutant: the rotation restarts every day (baseIndex left out)
selectActivityPerDay(acts, i, slotIndex) ==
  IF Len(acts) > 0
  THEN [some |-> TRUE, idx |-> (slotIndex % Len(acts)) + 1]
  ELSE [some |-> FALSE, idx |-> 0]

\* activities[(baseIndex + slotIndex) % activities.length], or null
selectActivity(acts, i, slotIndex) ==
  LET baseIndex == i * maxActivitiesPerDay
  IN IF Len(acts) > 0
     THEN [some |-> TRUE, idx |-> ((baseIndex + slotIndex) % Len(acts)) + 1]
     ELSE [some |-> FALSE, idx |-> 0]

\* what the function computes once, before its loops
tripContext(zone, t) ==
  [zone |-> zone,
   dayCount |-> dayCount(t),
   startDateObj |-> startDateObj(t),
   perSlotBudget |-> perSlotBudget(t),
   destinationLabel |-> destinationLabel(t),
   interestSentence |-> buildInterestSentence(t)]

\* mutant: nothing said in a block without activity
activityPartsSilent(acts, sel) ==
  IF sel.some
  THEN LET activity == acts[sel.idx]
       IN <<<<"Actividad sugerida:", SP>> \o ToText(activity.name) \o <<".">>>>
          \o (IF Truthy(activity.category)
              THEN <<<<"Categoria:", SP>> \o activity.category.s \o <<".">>>>
              ELSE <<>>)
          \o (IF Truthy(activity.priceRange)
              THEN <<<<"Rango de precio aproximado:", SP>>
                     \o activity.priceRange.s \o <<".">>>>
              ELSE <<>>)
  ELSE <<>>

\* the sentences about the selected activity, or the free-exploration one
activityParts(acts, sel) ==
  IF sel.some
  THEN LET activity == acts[sel.idx]
       IN <<<<"Actividad sugerida:", SP>> \o ToText(activity.name) \o <<".">>>>
          \o (IF Truthy(activity.category)
              THEN <<<<"Categoria:", SP>> \o activity.category.s \o <<".">>>>
              ELSE <<>>)
          \o (IF Truthy(activity.priceRange)
              THEN <<<<"Rango de precio aproximado:", SP>>
                     \o activity.priceRange.s \o <<".">>>>
              ELSE <<>>)
  ELSE <<<<"Espacio libre para que el viajero descubra la ciudad a su propio ritmo.">>>>

\* the description of one block: the parts pushed, joined with ' '
buildDescription(ctx, acts, sel, slotIndex) ==
  LET slotPart == <<<<"Bloque de", SP, timeOfDayLabel(timeSlots[slotIndex + 1]),
                     SP, "en", SP>> \o ctx.destinationLabel \o <<".">>>>
      interestParts ==
        IF ctx.interestSentence # <<>> THEN <<ctx.interestSentence>> ELSE <<>>
      budgetParts ==
        IF ctx.perSlotBudget.k = "num"
        THEN <<<<"Presupuesto sugerido para este bloque: aproximadamente", SP,
                 ToString(ctx.perSlotBudget.n), SP,
                 "unidades de la moneda del viaje.">>>>
        ELSE <<>>
  IN Join(slotPart \o activityParts(acts, sel) \o interestParts \o budgetParts,
          <<SP>>)

\* one period object of day index i (0-based), slot index slotIndex (0-based)
buildPeriod(ctx, acts, i, slotIndex) ==
  LET sel == selectActivity(acts, i, slotIndex)
  IN [timeOfDay |-> timeSlots[slotIndex + 1],
      title |-> IF sel.some THEN acts[sel.idx].name
                ELSE Str(<<"Explorar", SP>> \o ctx.destinationLabel),
      description |-> Str(buildDescription(ctx, acts, sel, slotIndex)),
      activityId |-> IF sel.some /\ Truthy(acts[sel.idx].id)
                     THEN acts[sel.idx].id ELSE Undef,
      estimatedCost |-> IF ctx.perSlotBudget.k = "num" THEN ctx.perSlotBudget
                        ELSE NoNum]

\* mutant: the day numbered by its 0-based index
buildDayZeroBased(ctx, acts, i) ==
  [k |-> "obj",
   day |-> Num(i),
   date |-> buildDateString(ctx.zone, ctx.startDateObj, i),
   periods |-> Arr([s \in 1..Len(timeSlots) |-> buildPeriod(ctx, acts, i, s - 1)])]

\* one day object of day index i (0-based)
buildDay(ctx, acts, i) ==
  [k |-> "obj",
   day |-> Num(i + 1),
   date |-> buildDateString(ctx.zone, ctx.startDateObj, i),
   periods |-> Arr([s \in 1..Len(timeSlots) |-> buildPeriod(ctx, acts, i, s - 1)])]

\* generateItineraryRules({ trip, activities = [] }) run in time zone `zone`.
\* trip.interests is read outside the try block, and activities.length is read
\* for every block: a null or undefined trip and a null activities throw.
generateItineraryRules(zone, t, a) ==
  IF t.k # "obj" THEN Threw
  ELSE IF a.k = "null" THEN Threw
  ELSE LET acts == IF a.k = "undef" THEN <<>> ELSE a.items
           ctx == tripContext(zone, t)
       IN Returned([i \in 1..ctx.dayCount |-> buildDay(ctx, acts, i - 1)])

----------------------------------------------------------------------------
(* enrichItineraryWithAI *)

DEFAULT_AI_MODEL_NAME == <<"local-rules-enrichment-v1">>

\* the value returned by a call: either it threw, or { data, aiModelUsed, score }
EnrichThrew ==
  [threw |-> TRUE, data |-> [days |-> Arr(<<>>)], aiModelUsed |-> <<>>, score |-> 0]
EnrichReturned(data, modelName, score) ==
  [threw |-> FALSE, data |-> data, aiModelUsed |-> modelName, score |-> score]

\* mutant: every interest of the trip named, not the first three
buildTravelerProfileAll(t, u) ==
  LET travelerName == IF u.k = "obj" /\ Truthy(u.name) THEN u.name.s
                      ELSE <<"la persona viajera">>
      interests == IF t.k = "obj" /\ t.interests.k = "arr"
                   THEN t.interests.items ELSE <<>>
  IN IF Len(interests) > 0
     THEN travelerName \o <<",", SP, "que disfruta especialmente de", SP>>
            \o Join([i \in 1..Len(interests) |-> <<interests[i]>>], <<",", SP>>)
     ELSE travelerName \o <<",", SP,
            "que busca una experiencia equilibrada entre descanso y descubrimiento">>

\* user?.name || 'la persona viajera', then the interests clause
buildTravelerProfile(t, u) ==
  LET travelerName == IF u.k = "obj" /\ Truthy(u.name) THEN u.name.s
                      ELSE <<"la persona viajera">>
      interests == IF t.k = "obj" /\ t.interests.k = "arr"
                   THEN t.interests.items ELSE <<>>
  IN IF Len(interests) > 0
     THEN LET mainInterests ==
                Join([i \in 1..Len(Slice(interests, 3)) |-> <<interests[i]>>],
                     <<",", SP>>)
          IN travelerName \o <<",", SP, "que disfruta especialmente de", SP>>
               \o mainInterests
     ELSE travelerName \o <<",", SP,
            "que busca una experiencia equilibrada entre descanso y descubrimiento">>

momentSentence(timeOfDay) ==
  CASE timeOfDay = "morning" ->
         <<"Es un buen momento para empezar el dia con calma, respirando el ambiente del lugar.">>
    [] timeOfDay = "afternoon" ->
         <<"La tarde invita a seguir explorando sin apuro, combinando movimiento y pequenos descansos.">>
    [] timeOfDay = "evening" ->
         <<"La noche es ideal para bajar revoluciones y disfrutar de la ciudad iluminada.">>
    [] OTHER ->
         <<"Este momento del dia es perfecto para conectar con el lugar y contigo misma/o.">>

\* mutant: the original description replaced instead of kept
enrichPeriodDescriptionReplacing(period, dayNumber, t, travelerProfile) ==
  LET tripTitle == IF t.k = "obj" /\ Truthy(t.title) THEN t.title.s
                   ELSE <<"el viaje">>
      dayIntro == <<"Dia", SP, ToString(dayNumber), SP, "de tu viaje", SP, "\"">>
                    \o tripTitle \o <<"\".">>
      travelerSentence == <<"Pensado para", SP>> \o travelerProfile \o <<".">>
  IN Trim(dayIntro \o <<SP>> \o momentSentence(period.timeOfDay) \o <<SP>>
            \o travelerSentence)

\* mutant: the context added only when the description does not carry it yet
enrichPeriodDescriptionOnce(period, dayNumber, t, travelerProfile) ==
  LET baseDescription == IF Truthy(period.description)
                         THEN period.description.s ELSE <<>>
      tripTitle == IF t.k = "obj" /\ Truthy(t.title) THEN t.title.s
                   ELSE <<"el viaje">>
      dayIntro == <<"Dia", SP, ToString(dayNumber), SP, "de tu viaje", SP, "\"">>
                    \o tripTitle \o <<"\".">>
      travelerSentence == <<"Pensado para", SP>> \o travelerProfile \o <<".">>
  IN IF Includes(baseDescription, dayIntro) THEN Trim(baseDescription)
     ELSE Trim(baseDescription \o <<SP>> \o dayIntro \o <<SP>>
                 \o momentSentence(period.timeOfDay) \o <<SP>> \o travelerSentence)

\* the new description of one period: original, day intro, moment sentence and
\* traveler sentence, separated by one space each, then trimmed
enrichPeriodDescription(period, dayNumber, t, travelerProfile) ==
  LET baseDescription == IF Truthy(period.description)
                         THEN period.description.s ELSE <<>>
      tripTitle == IF t.k = "obj" /\ Truthy(t.title) THEN t.title.s
                   ELSE <<"el viaje">>
      dayIntro == <<"Dia", SP, ToString(dayNumber), SP, "de tu viaje", SP, "\"">>
                    \o tripTitle \o <<"\".">>
      travelerSentence == <<"Pensado para", SP>> \o travelerProfile \o <<".">>
  IN Trim(baseDescription \o <<SP>> \o dayIntro \o <<SP>>
            \o momentSentence(period.timeOfDay) \o <<SP>> \o travelerSentence)

\* mutant: the period rebuilt from its texts, its other fields not copied
enrichPeriodRebuilt(period, dayNumber, t, travelerProfile) ==
  [timeOfDay |-> period.timeOfDay,
   title |-> period.title,
   description |->
     Str(enrichPeriodDescription(period, dayNumber, t, travelerProfile)),
   activityId |-> Undef,
   estimatedCost |-> NoNum]

\* one enriched period: a copy of the period with its description overwritten
enrichPeriod(period, dayNumber, t, travelerProfile) ==
  [period EXCEPT !.description =
     Str(enrichPeriodDescription(period, dayNumber, t, travelerProfile))]

\* one enriched day: a copy of the day with its periods replaced (the copy of
\* an entry that is a number or a boolean has no field but periods)
enrichDay(day, t, travelerProfile) ==
  LET dayNumber == IF day.day.k = "num" /\ day.day.n > 0 THEN day.day.n ELSE 1
      originalPeriods == IF day.periods.k = "arr" THEN day.periods.items ELSE <<>>
  IN [day EXCEPT !.k = "obj", !.periods =
        Arr([j \in 1..Len(originalPeriods) |->
               enrichPeriod(originalPeriods[j], dayNumber, t, travelerProfile)])]

\* the days the enricher walks: itinerary.data?.days when it is a list
originalDaysOf(it) ==
  IF it.data.k = "obj" /\ it.data.days.k = "arr"
  THEN it.data.days.items ELSE <<>>

\* reading day.day of a days entry that is null or undefined throws
dayThrows(day) == day.k \in {"null", "undef"}

buildLocallyEnrichedData(it, t, u) ==
  LET originalDays == originalDaysOf(it)
      travelerProfile == buildTravelerProfile(t, u)
  IN [days |-> Arr([i \in 1..Len(originalDays) |->
                      enrichDay(originalDays[i], t, travelerProfile)])]

\* mutant: the modelHint taken as sent
modelNameUntrimmed(o) ==
  IF o.k = "obj" /\ o.modelHint.k = "str" /\ Len(Trim(o.modelHint.s)) > 0
  THEN o.modelHint.s
  ELSE DEFAULT_AI_MODEL_NAME

\* modelHint trimmed when it is a string that is not blank, else the default
modelNameOf(o) ==
  IF o.k = "obj" /\ o.modelHint.k = "str" /\ Len(Trim(o.modelHint.s)) > 0
  THEN Trim(o.modelHint.s)
  ELSE DEFAULT_AI_MODEL_NAME

\* enrichItineraryWithAI({ itinerary, trip, user, options = {} }): reading
\* options.modelHint of a null options throws, and so does the walk over the
\* days at an entry that is null or undefined
enrichItineraryWithAI(it, t, u, o) ==
  IF o.k = "null" THEN EnrichThrew
  ELSE IF \E i \in 1..Len(originalDaysOf(it)) : dayThrows(originalDaysOf(it)[i])
  THEN EnrichThrew
  ELSE EnrichReturned(buildLocallyEnrichedData(it, t, u), modelNameOf(o),
                      FixedScore)

----------------------------------------------------------------------------
(* The inputs explored *)

StartDateInputs ==
  {NoDate, BadDate, NullDate,
   Iso(BaseDay * HoursPerDay),
   Iso((BaseDay + 3) * HoursPerDay + 12)}

EndDateInputs ==
  {NoDate,
   Iso(BaseDay * HoursPerDay),
   Iso((BaseDay + 3) * HoursPerDay + 12)}

\* the end of a trip longer than the cap
LongEndDate == Iso((BaseDay + LongTrip) * HoursPerDay)

BudgetInputs ==
  {NoNum, NumString(MidBudget), Num(0), Num(0 - MidBudget),
   Num(SmallBudget), Num(MidBudget), Num(BigBudget)}

\* title and interests of a trip
TextInputs ==
  {[title |-> Str(<<"Viaje a", SP, "Bariloche">>),
    interests |-> Arr(<<"nieve", "comida", "museos", "playa">>)],
   [title |-> Str(<<"Bariloche">>), interests |-> Arr(<<>>)],
   [title |-> Str(<<"Viaje a", SP>>), interests |-> Arr(<<"nieve">>)],
   [title |-> Undef, interests |-> NoArr]}

NullTrip ==
  [k |-> "null", startDate |-> NoDate, endDate |-> NoDate, budget |-> NoNum,
   interests |-> NoArr, title |-> Undef]

UndefinedTrip == [NullTrip EXCEPT !.k = "undef"]

\* every combination of the short date ranges with the budgets and the texts,
\* and the long trip from every start with a budget and without one
TripInputs ==
  {NullTrip, UndefinedTrip} \cup
  {[k |-> "obj", startDate |-> sd, endDate |-> ed, budget |-> b,
    interests |-> x.interests, title |-> x.title] :
     sd \in StartDateInputs, ed \in EndDateInputs, b \in BudgetInputs,
     x \in TextInputs} \cup
  {[k |-> "obj", startDate |-> sd, endDate |-> LongEndDate, budget |-> b,
    interests |-> Arr(<<"nieve", "comida">>), title |-> Str(<<"Bariloche">>)] :
     sd \in StartDateInputs, b \in {NoNum, Num(SmallBudget), Num(MidBudget)}}

A1 == [id |-> Str(<<"a1">>), name |-> Str(<<"City tour">>),
       category |-> Str(<<"sightseeing">>), priceRange |-> Str(<<"low">>)]
A2 == [id |-> Undef, name |-> Str(<<"Cerro Catedral">>),
       category |-> Undef, priceRange |-> Str(<<"high">>)]
A3 == [id |-> Str(<<"a3">>), name |-> Str(<<"Museo">>),
       category |-> Str(<<"culture">>), priceRange |-> Undef]
A4 == [id |-> Str(<<"a4">>), name |-> Str(<<"Chocolate">>),
       category |-> Str(<<"food">>), priceRange |-> Str(<<"medium">>)]

ActivityInputs ==
  {NoArr, NullArr, Arr(<<>>), Arr(<<A1>>), Arr(<<A1, A2, A3, A4>>)}

NoUser == [k |-> "null", name |-> Undef]
NoOptions == [k |-> "undef", modelHint |-> Undef]
NullOptions == [k |-> "null", modelHint |-> Undef]

\* a modelHint that is a number
NotAString == [k |-> "num", s |-> <<>>]

\* the user and the options of an enrichment call
EnrichInputs ==
  {[user |-> NoUser, options |-> NoOptions],
   [user |-> [k |-> "obj", name |-> Str(<<"Ana">>)],
    options |-> [k |-> "obj", modelHint |-> Str(<<SP, "gemini", SP>>)]],
   [user |-> [k |-> "obj", name |-> Undef],
    options |-> [k |-> "obj", modelHint |-> Str(<<SP, SP>>)]],
   [user |-> [k |-> "obj", name |-> Str(<<"Ana">>)],
    options |-> [k |-> "obj", modelHint |-> Undef]],
   [user |-> [k |-> "obj", name |-> Undef],
    options |-> [k |-> "obj", modelHint |-> Str(<<>>)]],
   [user |-> [k |-> "obj", name |-> Undef],
    options |-> [k |-> "obj", modelHint |-> NotAString]],
   [user |-> [k |-> "obj", name |-> Str(<<"Ana">>)],
    options |-> NullOptions]}

\* the user and the options tried on generated itineraries
GeneratedEnrichInputs ==
  {c \in EnrichInputs : c.user.k = "null" \/ Truthy(c.options.modelHint)}

\* itineraries as the store can hold them without coming from the generator:
\* the persisted schema admits any description of 3 to 2000 characters, an
\* absent description and the timeOfDay "full_day"
StoredPeriod(tod, desc) ==
  [timeOfDay |-> tod, title |-> Str(<<"Paseo">>), description |-> desc,
   activityId |-> Undef, estimatedCost |-> Num(MidBudget)]

StoredDay(n, periods) ==
  [k |-> "obj", day |-> Num(n), date |-> DateStr(BaseDay + n),
   periods |-> Arr(periods)]

StoredItinerary(days) ==
  [id |-> "it1", data |-> [k |-> "obj", days |-> Arr(days)]]

\* entries of a days list that are no day objects: null, and a number
NullDay == [k |-> "null", day |-> NoNum, date |-> NoDateStr, periods |-> NoArr]
PrimitiveDay == [NullDay EXCEPT !.k = "prim"]

\* days without a usable day number or without a periods list
DayWithoutPeriods ==
  [k |-> "obj", day |-> NumString(2), date |-> NoDateStr, periods |-> NoArr]
DayZero ==
  [k |-> "obj", day |-> Num(0), date |-> DateStr(BaseDay),
   periods |-> Arr(<<StoredPeriod("brunch", Undef)>>)]

\* itineraries that the schema would not admit
MalformedInputs ==
  {[id |-> "it1", data |-> [k |-> "undef", days |-> NoArr]],
   [id |-> "it1", data |-> [k |-> "obj", days |-> NullArr]],
   StoredItinerary(<<DayWithoutPeriods, DayZero, PrimitiveDay>>),
   StoredItinerary(<<StoredDay(1, <<StoredPeriod("morning", Undef)>>), NullDay>>)}

StoredInputs ==
  MalformedInputs \cup
  {StoredItinerary(<<StoredDay(1, <<StoredPeriod("full_day", Str(<<"Llevar abrigo">>)),
                                    StoredPeriod("morning", Undef)>>)>>),
   StoredItinerary(<<StoredDay(2, <<StoredPeriod("evening", Str(<<SP, "Cena">>))>>),
                     StoredDay(1, <<StoredPeriod("afternoon", Str(<<SP, SP, SP>>)),
                                    StoredPeriod("morning", Str(<<"Cafe", SP>>))>>)>>)}

----------------------------------------------------------------------------
(* The state machine: calls of the two functions *)

\* the documents of the collections "trips" and "itineraries"

\* the itinerary ids the store can hand out, and the last instant of the clock
MaxItineraries == 2
MaxClock == 2

ItineraryIds == 1..MaxItineraries
TripIds == {"t1", "t2", "t3"}

Null == [k |-> "null", n |-> 0]

NoTripDoc == [exists |-> FALSE, userId |-> "", fields |-> NullTrip]
TripDoc(userId, fields) == [exists |-> TRUE, userId |-> userId, fields |-> fields]

\* t1 is a two-day trip of user u1, t2 a trip of user u2 whose dates do not
\* parse, and there is no trip t3
InitialTrips ==
  [id \in TripIds |->
     CASE id = "t1" ->
            TripDoc("u1", [k |-> "obj",
                           startDate |-> Iso(BaseDay * HoursPerDay),
                           endDate |-> Iso((BaseDay + 1) * HoursPerDay),
                           budget |-> Num(MidBudget),
                           interests |-> Arr(<<"nieve", "comida">>),
                           title |-> Str(<<"Viaje a", SP, "Bariloche">>)])
       [] id = "t2" ->
            TripDoc("u2", [k |-> "obj", startDate |-> BadDate,
                           endDate |-> BadDate, budget |-> NoNum,
                           interests |-> Arr(<<>>),
                           title |-> Str(<<"Bariloche">>)])
       [] OTHER -> NoTripDoc]

NoDoc ==
  [exists |-> FALSE, tripId |-> "", generatedAt |-> 0,
   data |-> [k |-> "undef", days |-> NoArr], aiModelUsed |-> <<>>,
   score |-> Null, createdAt |-> 0, updatedAt |-> 0]

\* the value of a date field that a document does not have
Absent == 0 - 1

\* what is left of a deleted document: nothing, and its id stays used
DeletedDoc ==
  [NoDoc EXCEPT !.generatedAt = Absent, !.createdAt = Absent, !.updatedAt = Absent]

\* no call of updateItinerary, and none of deleteItinerary, is under way
NoUpdate ==
  [pc |-> "idle", id |-> 0, returned |-> "",
   data |-> [tripId |-> [in |-> FALSE, v |-> ""],
             generatedAt |-> [in |-> FALSE, v |-> 0],
             data |-> [in |-> FALSE, v |-> [k |-> "undef", days |-> NoArr]],
             aiModelUsed |-> [in |-> FALSE, v |-> <<>>],
             score |-> [in |-> FALSE, v |-> NoNum]]]
NoDelete == [pc |-> "idle", id |-> 0, returned |-> ""]

\* the request served last and its response
NoneServed == [op |-> "", param |-> "", status |-> 0, error |-> "", id |-> 0]

NoResult == [threw |-> FALSE, days |-> <<>>]
NoItinerary == [id |-> "", data |-> [k |-> "undef", days |-> NoArr]]
NoEnriched == EnrichReturned([days |-> Arr(<<>>)], <<>>, 0)

\* the day and period objects in memory, each at its address (its index), and
\* the addresses held by the days list passed to a call and by the one returned
EmptyHeap == [days |-> <<>>, periods |-> <<>>, argDays |-> <<>>, retDays |-> <<>>]

Init ==
  /\ tz \in {"UTC", "DST"}
  /\ pc = "idle"
  /\ trip = NullTrip
  /\ activities = NoArr
  /\ result = NoResult
  /\ itinerary = NoItinerary
  /\ user = NoUser
  /\ options = NoOptions
  /\ enriched = NoEnriched
  /\ heap = EmptyHeap
  /\ trips = InitialTrips
  /\ itineraries = [id \in ItineraryIds |-> NoDoc]
  /\ clock = 0
  /\ served = NoneServed
  /\ updating = NoUpdate
  /\ deleting = NoDelete

\* a call generateItineraryRules({ trip: t, activities: a })
Generate(t, a) ==
  /\ pc = "idle"
  /\ pc' = "generated"
  /\ trip' = t
  /\ activities' = a
  /\ result' = generateItineraryRules(tz, t, a)
  /\ UNCHANGED <<tz, itinerary, user, options, enriched, heap>>
  /\ UNCHANGED <<storeVars, raceVars>>

\* the generated data, wrapped as an itinerary, goes through the enricher
EnrichGenerated(c) ==
  /\ pc = "generated"
  /\ ~result.threw
  /\ pc' = "enriched"
  /\ itinerary' = [id |-> "gen", data |-> [k |-> "obj", days |-> Arr(result.days)]]
  /\ user' = c.user
  /\ options' = c.options
  /\ enriched' = enrichItineraryWithAI(itinerary', trip, c.user, c.options)
  /\ UNCHANGED <<tz, trip, activities, result, heap>>
  /\ UNCHANGED <<storeVars, raceVars>>

\* a stored itinerary goes through the enricher
EnrichStored(it, t, c) ==
  /\ pc = "idle"
  /\ pc' = "enriched"
  /\ itinerary' = it
  /\ trip' = t
  /\ user' = c.user
  /\ options' = c.options
  /\ enriched' = enrichItineraryWithAI(it, t, c.user, c.options)
  /\ UNCHANGED <<tz, activities, result, heap>>
  /\ UNCHANGED <<storeVars, raceVars>>

\* the call is over
Reset ==
  /\ pc # "idle"
  /\ pc' = "idle"
  /\ trip' = NullTrip
  /\ activities' = NoArr
  /\ result' = NoResult
  /\ itinerary' = NoItinerary
  /\ user' = NoUser
  /\ options' = NoOptions
  /\ enriched' = NoEnriched
  /\ heap' = EmptyHeap
  /\ UNCHANGED tz
  /\ UNCHANGED <<storeVars, raceVars>>

StoredTrips ==
  {NullTrip} \cup
  {[k |-> "obj", startDate |-> NoDate, endDate |-> NoDate, budget |-> NoNum,
    interests |-> x.interests, title |-> x.title] : x \in TextInputs}

Next ==
  \/ \E t \in TripInputs, a \in ActivityInputs : Generate(t, a)
  \/ \E c \in GeneratedEnrichInputs : EnrichGenerated(c)
  \/ \E it \in StoredInputs, t \in StoredTrips, c \in EnrichInputs :
       EnrichStored(it, t, c)
  \/ Reset

Spec == Init /\ [][Next]_vars

----------------------------------------------------------------------------
(* Properties of generateItineraryRules *)

\* the call of the current state has returned an itinerary
Generated == pc = "generated" /\ ~result.threw

\* the periods of a generated day
PeriodsOf(day) == day.periods.items

\* the date input is a string Date parses (null is not a string: Date reads
\* it as the epoch)
ParsesAsString(v) == v.k = "iso"

\* C1: generateItineraryRules never throws and always returns at least one
\* day, each with at least one period, for every input whatsoever, a null or
\* undefined trip included.
C1_NeverThrows ==
  pc = "generated" =>
    /\ ~result.threw
    /\ Len(result.days) >= 1
    /\ \A i \in 1..Len(result.days) : Len(PeriodsOf(result.days[i])) >= 1

\* C2: the number of days is always between 1 and 30, and when both dates
\* parse and end >= start it is min(30, max(1, floor(days between) + 1)).
C2_DayCount ==
  Generated =>
    /\ Len(result.days) >= 1
    /\ Len(result.days) <= 30
    /\ LET start == ParseDate(trip.startDate)
           end == ParseDate(trip.endDate)
           whole == (end.t - start.t) \div HoursPerDay
       IN (start.valid /\ end.valid /\ end.t >= start.t) =>
            Len(result.days) = Min(30, Max(1, whole + 1))

\* C2 happens: a range longer than the cap gives 30 days
C2_Witness ==
  /\ Generated
  /\ ParsesAsString(trip.startDate) /\ ParsesAsString(trip.endDate)
  /\ trip.endDate.t - trip.startDate.t > 30 * HoursPerDay
  /\ Len(result.days) = 30

\* the fallback case of C3: a date is absent or is a string Date cannot
\* parse, or the end is before the start
FallbackCase(t) ==
  \/ t.startDate.k \in {"undef", "bad"}
  \/ t.endDate.k \in {"undef", "bad"}
  \/ /\ ParseDate(t.startDate).valid /\ ParseDate(t.endDate).valid
     /\ ParseDate(t.endDate).t < ParseDate(t.startDate).t

C4_Slots ==
  Generated =>
    \A i \in 1..Len(result.days) :
      [s \in 1..Len(PeriodsOf(result.days[i])) |->
         PeriodsOf(result.days[i])[s].timeOfDay]
        = <<"morning", "afternoon", "evening">>

\* C4 happens: a trip of several days with activities, and one without
C4_Witness ==
  /\ Generated
  /\ Len(result.days) > 3
  /\ activities.k = "arr" /\ Len(activities.items) > 1
  /\ Len(PeriodsOf(result.days[Len(result.days)])) = 3

\* C5: the day at 0-based position i has day = i + 1.
C5_DayNumbers ==
  Generated =>
    \A i \in 1..Len(result.days) : result.days[i].day = Num(i)

\* C5 happens: a capped trip whose last day is day 30
C5_Witness ==
  /\ Generated
  /\ Len(result.days) = 30
  /\ result.days[30].day = Num(30)

\* C6: with k > 0 activities, the period of 0-based day i and slot s has the
\* name of activities[(3 * i + s) mod k] as title and, when that activity has
\* an id, that id as activityId.
C6_RoundRobin ==
  (Generated /\ activities.k = "arr" /\ Len(activities.items) > 0) =>
    LET k == Len(activities.items) IN
    \A i \in 0..(Len(result.days) - 1) :
      \A s \in 0..(Len(PeriodsOf(result.days[i + 1])) - 1) :
        LET chosen == activities.items[((3 * i + s) % k) + 1]
            period == PeriodsOf(result.days[i + 1])[s + 1]
        IN /\ period.title = chosen.name
           /\ chosen.id.k = "str" => period.activityId = chosen.id

\* C6 happens: four activities over at least two days, so that day 2 starts
\* with the fourth activity and wraps around to the first
C6_Witness ==
  /\ Generated
  /\ activities.k = "arr" /\ Len(activities.items) = 4
  /\ Len(result.days) >= 2
  /\ PeriodsOf(result.days[2])[1].activityId = Str(<<"a4">>)
  /\ PeriodsOf(result.days[2])[2].activityId = Str(<<"a1">>)

\* C7: with a positive numeric budget every period carries the same
\* estimatedCost, the integer nearest to budget / dayCount / 3 (halves go
\* up); without one no period has an estimatedCost.
C7_EstimatedCost ==
  Generated =>
    LET d == Len(result.days)
        b == trip.budget.n
    IN \A i \in 1..d :
         \A s \in 1..Len(PeriodsOf(result.days[i])) :
           LET cost == PeriodsOf(result.days[i])[s].estimatedCost
           IN IF trip.budget.k = "num" /\ b > 0
              THEN /\ cost.k = "num"
                   /\ 6 * d * cost.n - 3 * d <= 2 * b
                   /\ 2 * b < 6 * d * cost.n + 3 * d
              ELSE cost.k = "undef"

\* C7 happens: the budget of the scenario over 3 days
C7_Witness ==
  /\ Generated
  /\ trip.budget.k = "num" /\ trip.budget.n >= MidBudget
  /\ Len(result.days) = 3
  /\ PeriodsOf(result.days[3])[3].estimatedCost.k = "num"
  /\ PeriodsOf(result.days[3])[3].estimatedCost.n >= 67

----------------------------------------------------------------------------
(* Properties of enrichItineraryWithAI *)

\* the call of the current state has returned an enriched itinerary
Enriched == pc = "enriched" /\ ~enriched.threw

\* the days passed in, and the days returned
DaysIn == itinerary.data.days.items
DaysOut == enriched.data.days.items

\* C9: the enriched data has the same days in the same order, each with its
\* day and date and the same periods in the same order, and every period keeps
\* timeOfDay, title, activityId and estimatedCost.
C9_Structure ==
  Enriched =>
    /\ Len(DaysOut) = Len(DaysIn)
    /\ \A i \in 1..Len(DaysIn) :
         /\ DaysOut[i].day = DaysIn[i].day
         /\ DaysOut[i].date = DaysIn[i].date
         /\ Len(PeriodsOf(DaysOut[i])) = Len(PeriodsOf(DaysIn[i]))
         /\ \A j \in 1..Len(PeriodsOf(DaysIn[i])) :
              LET old == PeriodsOf(DaysIn[i])[j]
                  new == PeriodsOf(DaysOut[i])[j]
              IN /\ new.timeOfDay = old.timeOfDay
                 /\ new.title = old.title
                 /\ new.activityId = old.activityId
                 /\ new.estimatedCost = old.estimatedCost

\* C9 happens: a generated itinerary with dates, activity ids and costs has
\* been enriched
C9_Witness ==
  /\ Enriched
  /\ Len(DaysIn) >= 2
  /\ DaysIn[2].date.k = "str"
  /\ PeriodsOf(DaysIn[2])[1].activityId.k = "str"
  /\ PeriodsOf(DaysIn[2])[1].estimatedCost.k = "num"
  /\ PeriodsOf(DaysOut[2])[1].description # PeriodsOf(DaysIn[2])[1].description

\* the original description of a period as text ('' when it has none)
OriginalText(period) ==
  IF period.description.k = "str" THEN period.description.s ELSE <<>>

\* C10 as stated: for every period passed to the enricher, from the generator
\* or from the store, the new description contains the complete original
\* description and differs from it.
C10_KeepsCompleteOriginal ==
  Enriched =>
    \A i \in 1..Len(DaysIn) :
      \A j \in 1..Len(PeriodsOf(DaysIn[i])) :
        LET old == PeriodsOf(DaysIn[i])[j]
            new == PeriodsOf(DaysOut[i])[j]
        IN /\ Includes(new.description.s, OriginalText(old))
           /\ new.description # old.description

\* C10 amended: the new description contains the original description without
\* its leading whitespace (the complete original when it starts with none, as
\* every generated description does) and differs from the original.
C10_KeepsTrimmedOriginal ==
  Enriched =>
    \A i \in 1..Len(DaysIn) :
      \A j \in 1..Len(PeriodsOf(DaysIn[i])) :
        LET old == PeriodsOf(DaysIn[i])[j]
            new == PeriodsOf(DaysOut[i])[j]
        IN /\ new.description.k = "str"
           /\ Includes(new.description.s, TrimStart(OriginalText(old)))
           /\ (OriginalText(old) = <<>> \/ Head(OriginalText(old)) # SP) =>
                Includes(new.description.s, OriginalText(old))
           /\ new.description # old.description

\* C10 happens: a stored description that starts with whitespace has been
\* enriched, and its text without that whitespace is in the new description
C10_Witness ==
  /\ Enriched
  /\ \E i \in 1..Len(DaysIn) :
       \E j \in 1..Len(PeriodsOf(DaysIn[i])) :
         LET old == OriginalText(PeriodsOf(DaysIn[i])[j])
             new == PeriodsOf(DaysOut[i])[j].description.s
         IN /\ Len(old) >= 2
            /\ Head(old) = SP
            /\ TrimStart(old) # <<>>
            /\ Includes(new, TrimStart(old))
            /\ ~Includes(new, old)

----------------------------------------------------------------------------
(* Enriching again: the enriched data is stored as the itinerary's data and
   the itinerary goes through the enricher once more *)

\* descriptions longer than this many atoms are not enriched again
MaxDescription == 60

\* every description of the enriched data is below the cap
BelowCap ==
  \A i \in 1..Len(enriched.data.days.items) :
    \A j \in 1..Len(enriched.data.days.items[i].periods.items) :
      Len(enriched.data.days.items[i].periods.items[j].description.s)
        < MaxDescription

\* the itinerary, its data replaced by the enricher's output, is enriched
\* again for the same trip, user and options
EnrichAgain ==
  /\ pc \in {"enriched", "reenriched"}
  /\ ~enriched.threw
  /\ BelowCap
  /\ pc' = "reenriched"
  /\ itinerary' = [itinerary EXCEPT
                     !.data = [k |-> "obj", days |-> enriched.data.days]]
  /\ enriched' = enrichItineraryWithAI(itinerary', trip, user, options)
  /\ UNCHANGED <<tz, trip, activities, result, user, options, heap>>
  /\ UNCHANGED <<storeVars, raceVars>>

NextAgain ==
  \/ \E t \in StoredTrips, a \in ActivityInputs : Generate(t, a)
  \/ \E c \in GeneratedEnrichInputs : EnrichGenerated(c)
  \/ \E it \in StoredInputs, t \in StoredTrips, c \in EnrichInputs :
       EnrichStored(it, t, c)
  \/ EnrichAgain
  \/ Reset

SpecAgain == Init /\ [][NextAgain]_vars

\* the itinerary of the current state has been enriched at least twice
Reenriched == pc = "reenriched"

\* C11: enriching an enriched itinerary again returns, and every period's
\* description is strictly longer than the description of the pass before
\* and starts with it, so the data differs whenever there is a period.
C11_Reenrich ==
  Reenriched =>
    /\ ~enriched.threw
    /\ Len(DaysOut) = Len(DaysIn)
    /\ \A i \in 1..Len(DaysIn) :
         /\ Len(PeriodsOf(DaysOut[i])) = Len(PeriodsOf(DaysIn[i]))
         /\ \A j \in 1..Len(PeriodsOf(DaysIn[i])) :
              LET once == PeriodsOf(DaysIn[i])[j].description.s
                  twice == PeriodsOf(DaysOut[i])[j].description.s
              IN /\ Len(twice) > Len(once)
                 /\ SubSeq(twice, 1, Len(once)) = once
                 /\ Includes(twice, once)
                 /\ enriched.data.days # itinerary.data.days

\* C11 happens: a generated itinerary is in its third pass, and a description
\* of the second pass is the start of the longer one of the third
C11_Witness ==
  /\ Reenriched
  /\ itinerary.id = "gen"
  /\ Len(DaysIn) >= 1
  /\ LET once == PeriodsOf(DaysIn[1])[1].description.s
         twice == PeriodsOf(DaysOut[1])[1].description.s
     IN /\ Len(once) > 0
        /\ Len(twice) > Len(once)
        /\ Includes(twice, once)
        /\ \E n \in 1..(Len(once) - 1) :
             /\ once[n] = "Dia"
             /\ \E m \in (n + 1)..Len(once) : once[m] = "Dia"

----------------------------------------------------------------------------
(* The score and the model tag *)

\* n whitespace atoms
Spaces(n) == [i \in 1..n |-> SP]

\* C12: every call of enrichItineraryWithAI that returns gives score 90; the
\* model tag is options.modelHint without its surrounding whitespace when
\* modelHint is a string with a character that is not whitespace, and the
\* default tag when modelHint is absent, not a string, empty or blank.
C12_ScoreAndModel ==
  Enriched =>
    /\ enriched.score = 90
    /\ LET hint == options.modelHint
           tag == enriched.aiModelUsed
           given == /\ options.k = "obj"
                    /\ hint.k = "str"
                    /\ \E i \in 1..Len(hint.s) : hint.s[i] # SP
       IN IF given
          THEN /\ Len(tag) > 0
               /\ Head(tag) # SP
               /\ tag[Len(tag)] # SP
               /\ \E a \in 0..Len(hint.s), b \in 0..Len(hint.s) :
                    hint.s = Spaces(a) \o tag \o Spaces(b)
          ELSE tag = <<"local-rules-enrichment-v1">>

\* C12 happens: a modelHint with whitespace on both sides has been trimmed
C12_Witness ==
  /\ Enriched
  /\ options.modelHint = Str(<<SP, "gemini", SP>>)
  /\ enriched.aiModelUsed = <<"gemini">>
  /\ enriched.score = 90

\* C12's other case happens: a modelHint that is not a string gives the default
C12_DefaultWitness ==
  /\ Enriched
  /\ options.modelHint.k = "num"
  /\ enriched.aiModelUsed = <<"local-rules-enrichment-v1">>

----------------------------------------------------------------------------
(* Malformed inputs of enrichItineraryWithAI *)

\* the call of the current state was a call of the enricher
EnrichCalled == pc = "enriched"

\* the itinerary passed in has a list under data.days
HasDaysList == itinerary.data.k = "obj" /\ itinerary.data.days.k = "arr"

\* the defaults of C13 for a call that returned: no days list gives no days,
\* a day without a positive numeric day is described as day 1, a day without
\* a periods list gives no periods, a period without description or with an
\* unknown timeOfDay gets the generic text, and an absent user or trip title
\* gets the generic label
C13_Defaults ==
  /\ ~HasDaysList => Len(DaysOut) = 0
  /\ HasDaysList => Len(DaysOut) = Len(itinerary.data.days.items)
  /\ \A i \in 1..Len(DaysOut) :
       LET day == itinerary.data.days.items[i]
           numbered == day.day.k = "num" /\ day.day.n > 0
       IN /\ day.periods.k # "arr" => Len(PeriodsOf(DaysOut[i])) = 0
          /\ \A j \in 1..Len(PeriodsOf(DaysOut[i])) :
               LET old == day.periods.items[j]
                   text == PeriodsOf(DaysOut[i])[j].description.s
               IN /\ ~numbered => Includes(text, <<"Dia", SP, "1", SP>>)
                  /\ old.description.k # "str" => Head(text) = "Dia"
                  /\ old.timeOfDay \notin {"morning", "afternoon", "evening"} =>
                       Includes(text, <<"Este momento del dia es perfecto para conectar con el lugar y contigo misma/o.">>)
                  /\ (user.k # "obj" \/ user.name.k # "str") =>
                       Includes(text, <<"Pensado para", SP, "la persona viajera">>)
                  /\ (trip.k # "obj" \/ trip.title.k # "str") =>
                       Includes(text, <<"\"", "el viaje", "\".">>)

\* C13: enrichItineraryWithAI raises no error on any malformed input, and
\* every malformed part is defaulted as C13_Defaults says; absent options
\* give the default tag.
C13_NoErrorOnMalformed ==
  EnrichCalled =>
    /\ ~enriched.threw
    /\ C13_Defaults
    /\ options.k # "obj" => enriched.aiModelUsed = <<"local-rules-enrichment-v1">>

\* what holds of C13: every call that returns has defaulted the malformed
\* parts
C13_DefaultsWhenReturned ==
  Enriched =>
    /\ C13_Defaults
    /\ options.k # "obj" => enriched.aiModelUsed = <<"local-rules-enrichment-v1">>

\* the defaulting happens: a days list with a day without periods, a day
\* numbered 0 and an entry that is a number has been enriched
C13_DefaultsWitness ==
  /\ Enriched
  /\ Len(DaysOut) = 3
  /\ Len(PeriodsOf(DaysOut[1])) = 0
  /\ Len(PeriodsOf(DaysOut[2])) = 1
  /\ itinerary.data.days.items[3].k = "prim"

\* the failing call: the days list holds a null entry
C13_NullDayThrows ==
  /\ EnrichCalled
  /\ \E i \in 1..Len(itinerary.data.days.items) :
       itinerary.data.days.items[i].k = "null"
  /\ options.k # "null"
  /\ enriched.threw

----------------------------------------------------------------------------
(* Structural validity of the enriched data *)

\* a days list is structurally valid: it is not empty and no day's periods
\* list is empty
ValidDays(days) ==
  /\ Len(days) >= 1
  /\ \A i \in 1..Len(days) :
       /\ days[i].k = "obj"
       /\ days[i].periods.k = "arr"
       /\ Len(days[i].periods.items) >= 1

\* C14: for every input itinerary, however malformed, the data returned by
\* enrichItineraryWithAI has a non-empty days list whose days all have a
\* non-empty periods list (stated for the calls that return).
C14_AlwaysValid ==
  Enriched => ValidDays(DaysOut)

\* what holds next to C14: the data returned for a structurally valid
\* itinerary is structurally valid
C14_ValidStaysValid ==
  (Enriched /\ HasDaysList /\ ValidDays(DaysIn)) => ValidDays(DaysOut)

\* the failing call: an itinerary without a days list comes back with an
\* empty days list
C14_EmptyReturned ==
  /\ Enriched
  /\ ~HasDaysList
  /\ Len(DaysOut) = 0

----------------------------------------------------------------------------
(* Objects: the two functions on a heap of day and period objects.  A day
   object holds the addresses of its periods; the itinerary passed to the
   enricher and the one returned are lists of day addresses. *)

\* the periods of a day as a sequence (a day without list has none)
PeriodItems(day) == IF day.periods.k = "arr" THEN day.periods.items ELSE <<>>

\* the periods of a list of days, in order
RECURSIVE AllPeriods(_)
AllPeriods(days) ==
  IF days = <<>> THEN <<>>
  ELSE PeriodItems(Head(days)) \o AllPeriods(Tail(days))

\* the day at an address with its periods read from the heap
ValueOfDay(h, a) ==
  LET addresses == h.days[a].periods.items
  IN [h.days[a] EXCEPT !.periods.items =
        [j \in 1..Len(addresses) |-> h.periods[addresses[j]]]]

\* one new object for every day and every period of a list of days, as the
\* object literals and spreads of the two functions create them; retDays
\* holds the addresses of the new days
Allocate(h, days) ==
  LET firstPeriod == Len(h.periods)
      firstDay == Len(h.days)
      before(i) == Len(AllPeriods(SubSeq(days, 1, i - 1)))
  IN [days |-> h.days \o
                 [i \in 1..Len(days) |->
                    [days[i] EXCEPT !.periods.items =
                       [j \in 1..Len(PeriodItems(days[i])) |->
                          firstPeriod + before(i) + j]]],
      periods |-> h.periods \o AllPeriods(days),
      argDays |-> h.argDays,
      retDays |-> [i \in 1..Len(days) |-> firstDay + i]]

\* generateItineraryRules: every day and period pushed is a new object
heapGenerate(h, zone, t, a) ==
  LET r == generateItineraryRules(zone, t, a)
  IN IF r.threw THEN h ELSE Allocate(h, r.days)

\* mutant: the descriptions written into the period objects passed in, and
\* the days passed in returned
heapEnrichInPlace(h, t, u) ==
  LET travelerProfile == buildTravelerProfile(t, u)
      slots == (1..Len(h.argDays)) \X (1..Len(h.periods))
      holds(ij, p) ==
        LET addresses == h.days[h.argDays[ij[1]]].periods.items
        IN ij[2] <= Len(addresses) /\ addresses[ij[2]] = p
      owner(p) == CHOOSE ij \in slots : holds(ij, p)
      written(p) ==
        enrichDay(ValueOfDay(h, h.argDays[owner(p)[1]]), t, travelerProfile)
          .periods.items[owner(p)[2]]
  IN [h EXCEPT !.periods =
                 [p \in 1..Len(h.periods) |->
                    IF \E ij \in slots : holds(ij, p) THEN written(p)
                    ELSE h.periods[p]],
               !.retDays = h.argDays]

\* buildLocallyEnrichedData: { ...basePeriod, description } and
\* { ...day, periods } are new objects
heapEnrich(h, t, u) ==
  LET travelerProfile == buildTravelerProfile(t, u)
  IN Allocate(h, [i \in 1..Len(h.argDays) |->
                    enrichDay(ValueOfDay(h, h.argDays[i]), t, travelerProfile)])

\* stored itineraries whose days are all objects
HeapInputs ==
  {it \in StoredInputs :
     /\ it.data.k = "obj" /\ it.data.days.k = "arr"
     /\ \A i \in 1..Len(it.data.days.items) : it.data.days.items[i].k = "obj"}

\* the arguments of generateItineraryRules are in place
GenCall(t, a) ==
  /\ pc = "idle"
  /\ pc' = "genCalled"
  /\ trip' = t
  /\ activities' = a
  /\ UNCHANGED <<tz, result, itinerary, user, options, enriched, heap>>
  /\ UNCHANGED <<storeVars, raceVars>>

\* generateItineraryRules runs and returns
GenReturn ==
  /\ pc = "genCalled"
  /\ pc' = "genReturned"
  /\ result' = generateItineraryRules(tz, trip, activities)
  /\ heap' = heapGenerate(heap, tz, trip, activities)
  /\ UNCHANGED <<tz, trip, activities, itinerary, user, options, enriched>>
  /\ UNCHANGED <<storeVars, raceVars>>

\* the generated days are passed to the enricher
EnrichCallGenerated(c) ==
  /\ pc = "genReturned"
  /\ ~result.threw
  /\ pc' = "enrichCalled"
  /\ itinerary' = [id |-> "gen", data |-> [k |-> "obj", days |-> Arr(result.days)]]
  /\ user' = c.user
  /\ options' = c.options
  /\ heap' = [heap EXCEPT !.argDays = heap.retDays, !.retDays = <<>>]
  /\ UNCHANGED <<tz, trip, activities, result, enriched>>
  /\ UNCHANGED <<storeVars, raceVars>>

\* a stored itinerary, its days and periods objects in memory, is passed to
\* the enricher
EnrichCallStored(it, t, c) ==
  /\ pc = "idle"
  /\ pc' = "enrichCalled"
  /\ itinerary' = it
  /\ trip' = t
  /\ user' = c.user
  /\ options' = c.options
  /\ heap' = LET loaded == Allocate(heap, it.data.days.items)
             IN [loaded EXCEPT !.argDays = loaded.retDays, !.retDays = <<>>]
  /\ UNCHANGED <<tz, activities, result, enriched>>
  /\ UNCHANGED <<storeVars, raceVars>>

\* enrichItineraryWithAI runs and returns
EnrichReturn ==
  /\ pc = "enrichCalled"
  /\ pc' = "enrichReturned"
  /\ enriched' = enrichItineraryWithAI(itinerary, trip, user, options)
  /\ heap' = IF enriched'.threw THEN heap ELSE heapEnrich(heap, trip, user)
  /\ UNCHANGED <<tz, trip, activities, result, itinerary, user, options>>
  /\ UNCHANGED <<storeVars, raceVars>>

NextHeap ==
  \/ \E t \in StoredTrips, a \in ActivityInputs : GenCall(t, a)
  \/ GenReturn
  \/ \E c \in GeneratedEnrichInputs : EnrichCallGenerated(c)
  \/ \E it \in HeapInputs, t \in StoredTrips, c \in EnrichInputs :
       EnrichCallStored(it, t, c)
  \/ EnrichReturn
  \/ Reset

SpecHeap == Init /\ [][NextHeap]_vars

\* the step in which one of the two functions runs
Returns ==
  /\ pc \in {"genCalled", "enrichCalled"}
  /\ pc' \in {"genReturned", "enrichReturned"}

\* the days returned by the call read from the heap
ReturnedDays == [i \in 1..Len(heap.retDays) |-> ValueOfDay(heap, heap.retDays[i])]

\* the heap holds what the functions return as values
HeapAgrees ==
  /\ (pc = "genReturned" /\ ~result.threw) => ReturnedDays = result.days
  /\ (pc = "enrichReturned" /\ ~enriched.threw) =>
       ReturnedDays = enriched.data.days.items

\* C15: a call of generateItineraryRules or enrichItineraryWithAI leaves the
\* trip, the activities, the itinerary, the user and the options as they
\* were, leaves every day and period object that existed before the call
\* unchanged, and returns day objects, holding period objects, that did not
\* exist before the call.
C15_ArgumentsKept ==
  [][Returns =>
       /\ trip' = trip /\ activities' = activities /\ itinerary' = itinerary
       /\ user' = user /\ options' = options
       /\ heap'.argDays = heap.argDays
       /\ Len(heap'.days) >= Len(heap.days)
       /\ Len(heap'.periods) >= Len(heap.periods)
       /\ \A a \in 1..Len(heap.days) : heap'.days[a] = heap.days[a]
       /\ \A p \in 1..Len(heap.periods) : heap'.periods[p] = heap.periods[p]
       /\ \A i \in 1..Len(heap'.retDays) :
            /\ heap'.retDays[i] > Len(heap.days)
            /\ \A j \in 1..Len(heap'.days[heap'.retDays[i]].periods.items) :
                 heap'.days[heap'.retDays[i]].periods.items[j] > Len(heap.periods)
  ]_vars

\* C15 happens: the enricher has returned new days for the days passed in,
\* and a period passed in still has its description while the period
\* returned for it has a longer one
C15_Witness ==
  /\ pc = "enrichReturned"
  /\ ~enriched.threw
  /\ Len(heap.argDays) >= 1
  /\ Len(heap.retDays) = Len(heap.argDays)
  /\ \A i \in 1..Len(heap.argDays) : heap.retDays[i] # heap.argDays[i]
  /\ LET old == heap.days[heap.argDays[1]].periods.items
         new == heap.days[heap.retDays[1]].periods.items
     IN /\ Len(old) >= 1
        /\ new[1] # old[1]
        /\ heap.periods[old[1]] = PeriodsOf(DaysIn[1])[1]
        /\ heap.periods[new[1]] = PeriodsOf(DaysOut[1])[1]
        /\ heap.periods[new[1]].description # heap.periods[old[1]].description

----------------------------------------------------------------------------
(* The store and the endpoints that write itineraries.  A request is served
   in one step; the clock advances with every write. *)

\* a field of the data passed to updateItinerary: present with a value, or not
\* in the data
Given(v) == [in |-> TRUE, v |-> v]
NotGiven(v) == [in |-> FALSE, v |-> v]

\* mutant: the document written to the first id instead of a new one
createItineraryFirstId(col, id, data, now) ==
  [col EXCEPT ![1] =
     [exists |-> TRUE,
      tripId |-> data.tripId,
      generatedAt |-> IF data.generatedAt.in THEN data.generatedAt.v ELSE now,
      data |-> data.data,
      aiModelUsed |-> IF data.aiModelUsed = <<>> THEN <<"rules">>
                      ELSE data.aiModelUsed,
      score |-> IF data.score.k = "num" THEN data.score ELSE Null,
      createdAt |-> now,
      updatedAt |-> now]]

\* createItinerary: the collection with the payload stored under the new id
createItinerary(col, id, data, now) ==
  [col EXCEPT ![id] =
     [exists |-> TRUE,
      tripId |-> data.tripId,
      generatedAt |-> IF data.generatedAt.in THEN data.generatedAt.v ELSE now,
      data |-> data.data,
      aiModelUsed |-> IF data.aiModelUsed = <<>> THEN <<"rules">>
                      ELSE data.aiModelUsed,
      score |-> IF data.score.k = "num" THEN data.score ELSE Null,
      createdAt |-> now,
      updatedAt |-> now]]

\* mutant: the score written as it was sent
patchOfScoreAsSent(doc, data, now) ==
  [tripId |-> IF data.tripId.in THEN data.tripId.v ELSE doc.tripId,
   generatedAt |-> IF data.generatedAt.in THEN data.generatedAt.v
                   ELSE doc.generatedAt,
   data |-> IF data.data.in THEN data.data.v ELSE doc.data,
   aiModelUsed |-> IF data.aiModelUsed.in THEN data.aiModelUsed.v
                   ELSE doc.aiModelUsed,
   score |-> IF data.score.in THEN data.score.v ELSE doc.score,
   updatedAt |-> now]

\* the fields of the patch that updateItinerary builds from its data
patchOf(doc, data, now) ==
  [tripId |-> IF data.tripId.in THEN data.tripId.v ELSE doc.tripId,
   generatedAt |-> IF data.generatedAt.in THEN data.generatedAt.v
                   ELSE doc.generatedAt,
   data |-> IF data.data.in THEN data.data.v ELSE doc.data,
   aiModelUsed |-> IF data.aiModelUsed.in THEN data.aiModelUsed.v
                   ELSE doc.aiModelUsed,
   score |-> IF data.score.in
             THEN (IF data.score.v.k = "num" THEN data.score.v ELSE Null)
             ELSE doc.score,
   updatedAt |-> now]

\* mutant: the patch written without merge, so that the fields outside the
\* patch are lost
updateItineraryReplacing(col, id, data, now) ==
  IF ~col[id].exists THEN col
  ELSE LET patch == patchOf(NoDoc, data, now)
       IN [col EXCEPT ![id] =
             [exists |-> TRUE, tripId |-> patch.tripId,
              generatedAt |-> patch.generatedAt, data |-> patch.data,
              aiModelUsed |-> patch.aiModelUsed, score |-> patch.score,
              createdAt |-> 0, updatedAt |-> now]]

\* updateItinerary: nothing for a missing document, else the patch merged
\* into the stored document
updateItinerary(col, id, data, now) ==
  IF ~col[id].exists THEN col
  ELSE LET patch == patchOf(col[id], data, now)
       IN [col EXCEPT ![id] =
             [exists |-> TRUE, tripId |-> patch.tripId,
              generatedAt |-> patch.generatedAt, data |-> patch.data,
              aiModelUsed |-> patch.aiModelUsed, score |-> patch.score,
              createdAt |-> col[id].createdAt, updatedAt |-> now]]

\* req.user as the authentication middleware sets it, and a request without;
\* the routes put the middleware before every handler
ReqUser(id, role, name) == [k |-> "obj", id |-> id, role |-> role, name |-> name]
NoReqUser == [k |-> "null", id |-> "", role |-> "", name |-> Undef]

ReqUsers ==
  {ReqUser("u1", "user", Str(<<"Ana">>)), ReqUser("u2", "user", Undef),
   ReqUser("adm", "admin", Undef)}

\* getAuthInfo: req.user?.id || null and req.user?.role || 'user'
getAuthInfo(u) ==
  [userId |-> IF u.k = "obj" THEN u.id ELSE "",
   role |-> IF u.k = "obj" /\ u.role # "" THEN u.role ELSE "user"]

\* checkTripOwnership({ tripId, req })
checkTripOwnership(col, tripId, u) ==
  LET auth == getAuthInfo(u)
      found == tripId \in DOMAIN col /\ col[tripId].exists
      refused(status, errorCode) ==
        [ok |-> FALSE, status |-> status, errorCode |-> errorCode,
         trip |-> NullTrip]
  IN IF auth.userId = "" THEN refused(401, "UNAUTHORIZED")
     ELSE IF ~found THEN refused(404, "TRIP_NOT_FOUND")
     ELSE IF auth.role = "admin"
     THEN [ok |-> TRUE, status |-> 200, errorCode |-> "",
           trip |-> col[tripId].fields]
     ELSE IF col[tripId].userId # auth.userId
     THEN refused(403, "FORBIDDEN_TRIP_OWNER")
     ELSE [ok |-> TRUE, status |-> 200, errorCode |-> "",
           trip |-> col[tripId].fields]

\* listActivities({ destinationId }): the activities of the one destination
listActivities(destinationId) ==
  IF destinationId = "d1" THEN <<A1, A2>> ELSE <<>>

\* the days hold a property whose value is undefined (date: undefined of a
\* trip without start date), which docRef.set() refuses unless the store is
\* told to ignore undefined properties
HasUndefined(days) ==
  \E i \in 1..Len(days) : days[i].date.k = "undef"

Served(op, param, status, error, id) ==
  [op |-> op, param |-> param, status |-> status, error |-> error, id |-> id]

\* the id of a new document: the store's ids are handed out in order, and
\* the id of a deleted document is not handed out again
NewId(col) ==
  LET free == {i \in DOMAIN col : col[i] = NoDoc}
  IN IF free = {} THEN Cardinality(DOMAIN col) + 1
     ELSE CHOOSE i \in free : \A j \in free : i <= j

\* a request that ends without writing: the response is all that changes
Refused(op, param, status, error) ==
  /\ served' = Served(op, "", status, error, 0)
  /\ UNCHANGED <<trips, itineraries, clock>>

\* mutant: the itinerary generated for whoever asks
generateItineraryAnyUser(tripId, u, destinationId) ==
  /\ LET doc == trips[tripId]
         op == "generateItinerary"
         id == NewId(itineraries)
     IN IF ~doc.exists THEN Refused(op, tripId, 404, "TRIP_NOT_FOUND")
        ELSE LET data == generateItineraryRules(tz, doc.fields,
                                                Arr(listActivities(destinationId)))
             IN \/ /\ data.threw \/ HasUndefined(data.days)
                   /\ Refused(op, tripId, 500, "INTERNAL_ERROR")
                \/ /\ ~data.threw
                   /\ clock < MaxClock
                   /\ id \in ItineraryIds
                   /\ itineraries' =
                        createItinerary(itineraries, id,
                          [tripId |-> tripId, generatedAt |-> NotGiven(0),
                           data |-> [k |-> "obj", days |-> Arr(data.days)],
                           aiModelUsed |-> <<"rules">>, score |-> NoNum],
                          clock)
                   /\ clock' = clock + 1
                   /\ served' = Served(op, tripId, 201, "", id)
                   /\ UNCHANGED trips
  /\ UNCHANGED <<tz, callVars, raceVars>>

\* POST /api/trips/:id/generate-itinerary by the user u; a document with an
\* undefined property is refused by the store or written without it
generateItinerary(tripId, u, destinationId) ==
  /\ LET doc == trips[tripId]
         userId == IF u.k = "obj" THEN u.id ELSE ""
         op == "generateItinerary"
         id == NewId(itineraries)
     IN IF ~doc.exists THEN Refused(op, tripId, 404, "TRIP_NOT_FOUND")
        ELSE IF doc.userId # userId
        THEN Refused(op, tripId, 403, "FORBIDDEN_TRIP_OWNER")
        ELSE LET data == generateItineraryRules(tz, doc.fields,
                                                Arr(listActivities(destinationId)))
             IN \/ /\ data.threw \/ HasUndefined(data.days)
                   /\ Refused(op, tripId, 500, "INTERNAL_ERROR")
                \/ /\ ~data.threw
                   /\ clock < MaxClock
                   /\ id \in ItineraryIds
                   /\ itineraries' =
                        createItinerary(itineraries, id,
                          [tripId |-> tripId, generatedAt |-> NotGiven(0),
                           data |-> [k |-> "obj", days |-> Arr(data.days)],
                           aiModelUsed |-> <<"rules">>, score |-> NoNum],
                          clock)
                   /\ clock' = clock + 1
                   /\ served' = Served(op, tripId, 201, "", id)
                   /\ UNCHANGED trips
  /\ UNCHANGED <<tz, callVars, raceVars>>

\* the body data of POST /api/itineraries: one day, a description with
\* leading whitespace and a period without description
CreateBodies ==
  {StoredItinerary(<<StoredDay(1, <<StoredPeriod("evening", Str(<<SP, "Cena">>)),
                                    StoredPeriod("full_day", Undef)>>)>>).data}

\* POST /api/itineraries with the body { tripId, data }
create(tripId, data, u) ==
  /\ LET ownership == checkTripOwnership(trips, tripId, u)
         op == "create"
         id == NewId(itineraries)
     IN IF ~ownership.ok
        THEN Refused(op, tripId, ownership.status, ownership.errorCode)
        ELSE /\ clock < MaxClock
             /\ id \in ItineraryIds
             /\ itineraries' =
                  createItinerary(itineraries, id,
                    [tripId |-> tripId, generatedAt |-> NotGiven(0),
                     data |-> data, aiModelUsed |-> <<>>, score |-> NoNum],
                    clock)
             /\ clock' = clock + 1
             /\ served' = Served(op, tripId, 201, "", id)
             /\ UNCHANGED trips
  /\ UNCHANGED <<tz, callVars, raceVars>>

\* POST /api/itineraries/:id/enrich-with-ai with the body { modelHint }
enrichWithAI(id, u, modelHint) ==
  /\ LET it == itineraries[id]
         op == "enrichWithAI"
     IN IF ~it.exists THEN Refused(op, "", 404, "ITINERARY_NOT_FOUND")
        ELSE LET ownership == checkTripOwnership(trips, it.tripId, u)
             IN IF ~ownership.ok
                THEN Refused(op, "", ownership.status, ownership.errorCode)
                ELSE LET e == enrichItineraryWithAI(
                                [id |-> id, data |-> it.data], ownership.trip,
                                u, [k |-> "obj", modelHint |-> modelHint])
                     IN IF e.threw
                        THEN Refused(op, "", 500, "INTERNAL_ERROR")
                        ELSE /\ clock < MaxClock
                             /\ itineraries' =
                                  updateItinerary(itineraries, id,
                                    [tripId |-> NotGiven(""),
                                     generatedAt |-> NotGiven(0),
                                     data |-> Given([k |-> "obj",
                                                     days |-> e.data.days]),
                                     aiModelUsed |-> Given(e.aiModelUsed),
                                     score |-> Given(Num(e.score))],
                                    clock)
                             /\ clock' = clock + 1
                             /\ served' = Served(op, "", 200, "", id)
                             /\ UNCHANGED trips
  /\ UNCHANGED <<tz, callVars, raceVars>>

\* the modelHint of the bodies of enrich-with-ai that are tried: none, and a
\* string with whitespace around it
ModelHints == {Undef, Str(<<SP, "gemini", SP>>)}

NextStore ==
  \/ \E tripId \in TripIds, u \in ReqUsers, destinationId \in {"", "d1"} :
       generateItinerary(tripId, u, destinationId)
  \/ \E tripId \in TripIds, data \in CreateBodies, u \in ReqUsers :
       create(tripId, data, u)
  \/ \E id \in ItineraryIds, u \in ReqUsers, modelHint \in ModelHints :
       enrichWithAI(id, u, modelHint)

SpecStore == Init /\ [][NextStore]_vars

----------------------------------------------------------------------------
(* Properties of the endpoints *)

\* the ids of the stored itineraries
StoredIds(col) == {i \in DOMAIN col : col[i].exists}

\* the step of a successful enrich-with-ai, and of a successful
\* generate-itinerary
EnrichSucceeds ==
  served'.op = "enrichWithAI" /\ served'.status = 200 /\ clock' = clock + 1
GenerateSucceeds ==
  served'.op = "generateItinerary" /\ served'.status = 201 /\ clock' = clock + 1

\* C16: a successful POST /api/itineraries/:id/enrich-with-ai leaves the set
\* of stored itineraries and every other document as they were; the document
\* keeps its id, tripId, generatedAt and createdAt, its data is the output of
\* the enricher for the stored itinerary, its trip and the requesting user,
\* its aiModelUsed is the model tag and its score is 90.
C16_ReplacedInPlace ==
  [][EnrichSucceeds =>
       LET id == served'.id
           old == itineraries[id]
           new == itineraries'[id]
       IN /\ StoredIds(itineraries') = StoredIds(itineraries)
          /\ \A other \in ItineraryIds \ {id} :
               itineraries'[other] = itineraries[other]
          /\ old.exists /\ new.exists
          /\ new.tripId = old.tripId
          /\ new.generatedAt = old.generatedAt
          /\ new.createdAt = old.createdAt
          /\ new.score = Num(90)
          /\ \E u \in ReqUsers, modelHint \in ModelHints :
               LET output ==
                     enrichItineraryWithAI([id |-> id, data |-> old.data],
                       trips[old.tripId].fields, u,
                       [k |-> "obj", modelHint |-> modelHint])
               IN /\ enrichWithAI(id, u, modelHint)
                  /\ new.data.days = output.data.days
                  /\ new.aiModelUsed = output.aiModelUsed
                  /\ new.aiModelUsed =
                       (IF modelHint.k = "str" THEN <<"gemini">>
                        ELSE <<"local-rules-enrichment-v1">>)
  ]_vars

\* C16 happens: a generated itinerary has been enriched in the store
C16_Witness ==
  /\ served.op = "enrichWithAI"
  /\ served.status = 200
  /\ LET doc == itineraries[served.id]
     IN /\ doc.exists
        /\ doc.tripId = "t1"
        /\ doc.aiModelUsed = <<"gemini">>
        /\ doc.score = Num(90)
        /\ doc.createdAt < doc.updatedAt
        /\ doc.generatedAt = doc.createdAt
        /\ Includes(doc.data.days.items[1].periods.items[1].description.s,
                    <<"Pensado para", SP, "Ana">>)

\* C17: a successful POST /api/trips/:id/generate-itinerary stores one
\* document under an id that held none, with the trip's id, aiModelUsed
\* "rules" and score null, and leaves the trips and every other itinerary
\* as they were.
C17_GenerateAddsOne ==
  [][GenerateSucceeds =>
       /\ trips' = trips
       /\ Cardinality(StoredIds(itineraries')) =
            Cardinality(StoredIds(itineraries)) + 1
       /\ \E id \in ItineraryIds :
            /\ ~itineraries[id].exists
            /\ itineraries'[id].exists
            /\ served'.id = id
            /\ itineraries'[id].tripId = served'.param
            /\ trips[served'.param].exists
            /\ itineraries'[id].aiModelUsed = <<"rules">>
            /\ itineraries'[id].score = Null
            /\ \A other \in ItineraryIds \ {id} :
                 itineraries'[other] = itineraries[other]
  ]_vars

\* C17 happens: a second itinerary has been generated next to a stored one
C17_Witness ==
  /\ served.op = "generateItinerary"
  /\ served.status = 201
  /\ served.id = 2
  /\ itineraries[1].exists
  /\ itineraries[2].exists
  /\ itineraries[2].tripId = served.param
  /\ itineraries[2].aiModelUsed = <<"rules">>
  /\ itineraries[2].score = Null
  /\ itineraries[2].createdAt > itineraries[1].createdAt

----------------------------------------------------------------------------
(* The dates of the generated days *)

\* the trip of the generated itinerary has a valid date range: both dates are
\* strings that parse and the end is not before the start
ValidRange ==
  /\ Generated
  /\ ParsesAsString(trip.startDate) /\ ParsesAsString(trip.endDate)
  /\ trip.endDate.t >= trip.startDate.t

\* the calendar day (days since the epoch) of a date string
CalendarDay(v) == v.t \div HoursPerDay

\* the dates of C18: the day at index i carries the start date plus i days,
\* and the last day of a range that is not clamped carries the end date
DatesFollowStart ==
  /\ \A i \in 1..Len(result.days) :
       result.days[i].date = DateStr(CalendarDay(trip.startDate) + (i - 1))
  /\ \A i \in 1..(Len(result.days) - 1) :
       result.days[i + 1].date.d = result.days[i].date.d + 1
  /\ (trip.endDate.t - trip.startDate.t) \div HoursPerDay + 1 <= 30 =>
       result.days[Len(result.days)].date = DateStr(CalendarDay(trip.endDate))

\* C18: with a valid date range, day 1 carries the start date, every day the
\* date one calendar day after the day before, and the last day of a range
\* that is not clamped the end date.
C18_Dates == ValidRange => DatesFollowStart

\* what holds of C18: the dates follow the start date when the server runs
\* in UTC
C18_DatesInUTC == (ValidRange /\ tz = "UTC") => DatesFollowStart

\* the failing call: in a zone with daylight saving two consecutive days
\* carry the same date
C18_DateRepeated ==
  /\ ValidRange
  /\ tz = "DST"
  /\ \E i \in 1..(Len(result.days) - 1) :
       /\ result.days[i].date.k = "str"
       /\ result.days[i + 1].date = result.days[i].date

----------------------------------------------------------------------------
(* Blocks without activity *)

\* the activities passed to the call are an empty list (or left out, which
\* the parameter default makes an empty list)
NoActivities ==
  \/ activities.k = "undef"
  \/ activities.k = "arr" /\ Len(activities.items) = 0

FreeExploration ==
  <<"Espacio libre para que el viajero descubra la ciudad a su propio ritmo.">>

\* C19: with an empty activities list the call returns dayCount days of
\* three periods, and every period has the title "Explorar " followed by the
\* destination label, a description with the free-exploration sentence and
\* no activityId.
C19_GenericSlots ==
  (Generated /\ NoActivities) =>
    /\ Len(result.days) = dayCount(trip)
    /\ \A i \in 1..Len(result.days) :
         /\ Len(PeriodsOf(result.days[i])) = 3
         /\ \A s \in 1..3 :
              LET period == PeriodsOf(result.days[i])[s]
              IN /\ period.title = Str(<<"Explorar", SP>> \o destinationLabel(trip))
                 /\ Includes(period.description.s, FreeExploration)
                 /\ ~Includes(period.description.s, <<"Actividad sugerida:">>)
                 /\ period.activityId = Undef

\* C19 happens: a four-day trip to Bariloche without activities
C19_Witness ==
  /\ Generated
  /\ activities = Arr(<<>>)
  /\ Len(result.days) = 4
  /\ trip.title = Str(<<"Viaje a", SP, "Bariloche">>)
  /\ PeriodsOf(result.days[4])[3].title = Str(<<"Explorar", SP, "Bariloche">>)
  /\ Includes(PeriodsOf(result.days[4])[3].description.s, FreeExploration)
  /\ PeriodsOf(result.days[4])[3].activityId = Undef

----------------------------------------------------------------------------
(* The composition of a generated description *)

\* the activities the call walks
ActivityItems == IF activities.k = "arr" THEN activities.items ELSE <<>>

\* the description C20 expects for the period of day index i (0-based) and
\* slot index s (0-based) whose estimatedCost is cost: the slot sentence, the
\* activity sentences or the free-exploration sentence, the interest clause,
\* the budget sentence, each after one space
ExpectedDescription(i, s, cost) ==
  LET label == CASE s = 0 -> "la manana" [] s = 1 -> "la tarde"
                 [] OTHER -> "la noche"
      slotSentence == <<"Bloque de", SP, label, SP, "en", SP>>
                        \o destinationLabel(trip) \o <<".">>
      k == Len(ActivityItems)
      activity == ActivityItems[((3 * i + s) % k) + 1]
      activitySentences ==
        <<SP, "Actividad sugerida:", SP>> \o activity.name.s \o <<".">>
        \o (IF activity.category.k = "str"
            THEN <<SP, "Categoria:", SP>> \o activity.category.s \o <<".">>
            ELSE <<>>)
        \o (IF activity.priceRange.k = "str"
            THEN <<SP, "Rango de precio aproximado:", SP>>
                   \o activity.priceRange.s \o <<".">>
            ELSE <<>>)
      interests == trip.interests.items
      interestClause ==
        IF trip.interests.k = "arr" /\ Len(interests) > 0
        THEN <<SP, ", con actividades pensadas para quienes disfrutan de", SP>>
               \o (IF Len(interests) = 1 THEN <<interests[1]>>
                   ELSE <<interests[1], SP, "y", SP, interests[2]>>)
        ELSE <<>>
      budgetSentence ==
        IF trip.budget.k = "num" /\ trip.budget.n > 0
        THEN <<SP, "Presupuesto sugerido para este bloque: aproximadamente", SP,
               ToString(cost.n), SP, "unidades de la moneda del viaje.">>
        ELSE <<>>
  IN slotSentence
       \o (IF k > 0 THEN activitySentences ELSE <<SP>> \o FreeExploration)
       \o interestClause
       \o budgetSentence

\* C20: every generated description is the slot sentence, then the activity
\* sentences (name, then category and price range when present) or the
\* free-exploration sentence, then the interest clause iff trip.interests is
\* a non-empty list, naming its first two entries, then the budget sentence
\* iff a per-slot budget was computed, joined by single spaces.
C20_Description ==
  Generated =>
    \A i \in 1..Len(result.days) :
      \A s \in 1..Len(PeriodsOf(result.days[i])) :
        LET period == PeriodsOf(result.days[i])[s]
        IN /\ period.description =
                Str(ExpectedDescription(i - 1, s - 1, period.estimatedCost))
           /\ (period.estimatedCost.k = "num") <=>
                (trip.budget.k = "num" /\ trip.budget.n > 0)

\* C20 happens: a description with all four parts, for a trip with four
\* interests of which two are named
C20_Witness ==
  /\ Generated
  /\ Len(ActivityItems) = 4
  /\ Len(trip.interests.items) = 4
  /\ LET text == PeriodsOf(result.days[1])[1].description.s
     IN /\ Head(text) = "Bloque de"
        /\ Includes(text, <<"Actividad sugerida:", SP, "City tour", ".", SP,
                            "Categoria:", SP, "sightseeing", ".", SP,
                            "Rango de precio aproximado:", SP, "low", ".", SP,
                            ", con actividades pensadas para quienes disfrutan de",
                            SP, "nieve", SP, "y", SP, "comida", SP,
                            "Presupuesto sugerido para este bloque: aproximadamente">>)
        /\ ~Includes(text, <<"museos">>)

----------------------------------------------------------------------------
(* The four parts of an enriched description *)

\* the sentence naming the day and the trip
DaySentence(n, t) ==
  <<"Dia", SP, ToString(n), SP, "de tu viaje", SP, "\"">>
    \o (IF t.k = "obj" /\ Truthy(t.title) THEN t.title.s ELSE <<"el viaje">>)
    \o <<"\".">>

\* the sentence about the traveler: the name or the generic label, then at
\* most three interests or the balanced clause
TravelerSentence(t, u) ==
  LET name == IF u.k = "obj" /\ Truthy(u.name) THEN u.name.s
              ELSE <<"la persona viajera">>
      all == IF t.k = "obj" /\ t.interests.k = "arr" THEN t.interests.items
             ELSE <<>>
      named == SubSeq(all, 1, Min(3, Len(all)))
      clause ==
        IF Len(all) = 0
        THEN <<"que busca una experiencia equilibrada entre descanso y descubrimiento">>
        ELSE <<"que disfruta especialmente de", SP, named[1]>>
               \o (IF Len(named) >= 2 THEN <<",", SP, named[2]>> ELSE <<>>)
               \o (IF Len(named) >= 3 THEN <<",", SP, named[3]>> ELSE <<>>)
  IN <<"Pensado para", SP>> \o name \o <<",", SP>> \o clause \o <<".">>

\* the number a day is named by: its own, or 1 when it carries none
OwnDayNumber(day) ==
  IF day.day.k = "num" /\ day.day.n > 0 THEN day.day.n ELSE 1

\* C21: every enriched description is the original description, the sentence
\* naming the day's own number and the trip title, the sentence of the
\* period's timeOfDay and the traveler sentence, in this order, joined by
\* single spaces and trimmed.
C21_FourParts ==
  Enriched =>
    \A i \in 1..Len(DaysIn) :
      \A j \in 1..Len(PeriodsOf(DaysIn[i])) :
        LET old == PeriodsOf(DaysIn[i])[j]
            new == PeriodsOf(DaysOut[i])[j]
        IN new.description =
             Str(Trim(Join(<<OriginalText(old),
                             DaySentence(OwnDayNumber(DaysIn[i]), trip),
                             momentSentence(old.timeOfDay),
                             TravelerSentence(trip, user)>>, <<SP>>)))

\* C21 happens: a period of day 2 of a trip with four interests has been
\* enriched for a named user, and its text names three interests and no
\* fourth
C21_Witness ==
  /\ Enriched
  /\ trip.k = "obj" /\ trip.interests.k = "arr" /\ Len(trip.interests.items) = 4
  /\ user.k = "obj" /\ Truthy(user.name)
  /\ Len(DaysIn) >= 2
  /\ DaysIn[2].day = Num(2)
  /\ LET text == PeriodsOf(DaysOut[2])[1].description.s
     IN /\ Includes(text, <<"Dia", SP, "2", SP, "de tu viaje">>)
        /\ Includes(text, <<"nieve", ",", SP, "comida", ",", SP, "museos", ".">>)
        /\ ~Includes(text, <<"playa">>)

----------------------------------------------------------------------------
(* Who may generate an itinerary *)

C22_NotFoundWitness ==
  /\ served.op = "generateItinerary"
  /\ served.status = 404
  /\ served.error = "TRIP_NOT_FOUND"
  /\ StoredIds(itineraries) = {}

----------------------------------------------------------------------------
(* The endpoints of /api/itineraries, each served in one step *)

\* getItineraryById: the document, or null (a document that does not exist)
getItineraryById(col, id) == IF col[id].exists THEN col[id] ELSE NoDoc

\* listItineraries({ tripId }): the ids of the documents of the trip, or of
\* every document when no tripId is given; the order (createdAt, descending)
\* and the limit are left out
listItineraries(col, tripId) ==
  {i \in DOMAIN col : col[i].exists /\ (tripId = "" \/ col[i].tripId = tripId)}

\* deleteItinerary: nothing for a missing document, else the document removed
deleteItinerary(col, id) ==
  IF ~col[id].exists THEN col ELSE [col EXCEPT ![id] = DeletedDoc]

\* the body of PATCH /api/itineraries/:id after itineraryUpdateSchema: every
\* key is optional
NoPatch ==
  [tripId |-> NotGiven(""), generatedAt |-> NotGiven(0),
   data |-> NotGiven([k |-> "undef", days |-> NoArr]),
   aiModelUsed |-> NotGiven(<<>>), score |-> NotGiven(NoNum)]

\* the bodies tried: {}, { score, aiModelUsed }, { tripId } naming the trip of
\* another user, and { tripId } naming no trip
PatchBodies ==
  {NoPatch,
   [NoPatch EXCEPT !.score = Given(Num(50)), !.aiModelUsed = Given(<<"manual">>)],
   [NoPatch EXCEPT !.tripId = Given("t2")],
   [NoPatch EXCEPT !.tripId = Given("t3")]}

\* the bounds of itineraryPeriodSchema for a description, in characters
MinChars == 3
MaxChars == 2000

\* a description of n characters
TextOfChars(n) == [i \in 1..(n \div 10) |-> "xxxxxxxxxx"]

\* the bodies of POST /api/itineraries tried on these endpoints: the one
\* above, and one whose description has the greatest length the schema admits
ApiCreateBodies ==
  CreateBodies \cup
  {StoredItinerary(<<StoredDay(1, <<StoredPeriod("morning",
                                      Str(TextOfChars(MaxChars)))>>)>>).data}

\* GET /api/itineraries/:id
getById(id, u) ==
  /\ LET it == getItineraryById(itineraries, id)
         op == "getById"
     IN IF ~it.exists THEN Refused(op, "", 404, "NOT_FOUND")
        ELSE LET ownership == checkTripOwnership(trips, it.tripId, u)
             IN IF ~ownership.ok
                THEN Refused(op, "", ownership.status, ownership.errorCode)
                ELSE /\ served' = Served(op, "", 200, "", id)
                     /\ UNCHANGED <<trips, itineraries, clock>>
  /\ UNCHANGED <<tz, callVars, raceVars>>

\* GET /api/itineraries?tripId=...: the response lists the itineraries of
\* the trip served'.param
list(tripId, u) ==
  /\ LET op == "list"
         role == getAuthInfo(u).role
         ownership == checkTripOwnership(trips, tripId, u)
     IN IF tripId = "" /\ role # "admin"
        THEN Refused(op, "", 400, "TRIP_ID_REQUIRED")
        ELSE IF tripId # "" /\ ~ownership.ok
        THEN Refused(op, "", ownership.status, ownership.errorCode)
        ELSE /\ served' = Served(op, tripId, 200, "", 0)
             /\ UNCHANGED <<trips, itineraries, clock>>
  /\ UNCHANGED <<tz, callVars, raceVars>>

\* PATCH /api/itineraries/:id with a body that the schema admits
update(id, u, body) ==
  /\ LET existing == getItineraryById(itineraries, id)
         op == "update"
     IN IF ~existing.exists THEN Refused(op, "", 404, "NOT_FOUND")
        ELSE LET ownership == checkTripOwnership(trips, existing.tripId, u)
             IN IF ~ownership.ok
                THEN Refused(op, "", ownership.status, ownership.errorCode)
                ELSE /\ clock < MaxClock
                     /\ itineraries' = updateItinerary(itineraries, id, body, clock)
                     /\ clock' = clock + 1
                     /\ served' = Served(op, "", 200, "", id)
                     /\ UNCHANGED trips
  /\ UNCHANGED <<tz, callVars, raceVars>>

\* DELETE /api/itineraries/:id
remove(id, u) ==
  /\ LET it == getItineraryById(itineraries, id)
         op == "remove"
     IN IF ~it.exists THEN Refused(op, "", 404, "NOT_FOUND")
        ELSE LET ownership == checkTripOwnership(trips, it.tripId, u)
             IN IF ~ownership.ok
                THEN Refused(op, "", ownership.status, ownership.errorCode)
                ELSE /\ clock < MaxClock
                     /\ itineraries' = deleteItinerary(itineraries, id)
                     /\ clock' = clock + 1
                     /\ served' = Served(op, "", 200, "", id)
                     /\ UNCHANGED trips
  /\ UNCHANGED <<tz, callVars, raceVars>>

\* the modelHint of the bodies tried on these endpoints
ApiModelHints == {Undef, Str(<<"rules">>)}

NextApi ==
  \/ \E tripId \in TripIds, data \in ApiCreateBodies, u \in ReqUsers :
       create(tripId, data, u)
  \/ \E id \in ItineraryIds, u \in ReqUsers : getById(id, u)
  \/ \E tripId \in TripIds \cup {""}, u \in ReqUsers : list(tripId, u)
  \/ \E id \in ItineraryIds, u \in ReqUsers, body \in PatchBodies :
       update(id, u, body)
  \/ \E id \in ItineraryIds, u \in ReqUsers : remove(id, u)
  \/ \E id \in ItineraryIds, u \in ReqUsers, modelHint \in ApiModelHints :
       enrichWithAI(id, u, modelHint)

SpecApi == Init /\ [][NextApi]_vars

----------------------------------------------------------------------------
(* The same endpoints as the file controllers/itineraryController.js serves
   them: the routes import their handlers from this file *)

\* POST /api/itineraries
createDirect(tripId, data, u) ==
  /\ LET id == NewId(itineraries)
     IN /\ clock < MaxClock
        /\ id \in ItineraryIds
        /\ itineraries' =
             createItinerary(itineraries, id,
               [tripId |-> tripId, generatedAt |-> NotGiven(0),
                data |-> data, aiModelUsed |-> <<>>, score |-> NoNum],
               clock)
        /\ clock' = clock + 1
        /\ served' = Served("create", tripId, 201, "", id)
        /\ UNCHANGED trips
  /\ UNCHANGED <<tz, callVars, raceVars>>

\* GET /api/itineraries/:id
getByIdDirect(id, u) ==
  /\ IF ~getItineraryById(itineraries, id).exists
     THEN Refused("getById", "", 404, "NOT_FOUND")
     ELSE /\ served' = Served("getById", "", 200, "", id)
          /\ UNCHANGED <<trips, itineraries, clock>>
  /\ UNCHANGED <<tz, callVars, raceVars>>

\* GET /api/itineraries?tripId=...
listDirect(tripId, u) ==
  /\ served' = Served("list", tripId, 200, "", 0)
  /\ UNCHANGED <<trips, itineraries, clock>>
  /\ UNCHANGED <<tz, callVars, raceVars>>

\* PATCH /api/itineraries/:id
updateDirect(id, u, body) ==
  /\ IF ~itineraries[id].exists THEN Refused("update", "", 404, "NOT_FOUND")
     ELSE /\ clock < MaxClock
          /\ itineraries' = updateItinerary(itineraries, id, body, clock)
          /\ clock' = clock + 1
          /\ served' = Served("update", "", 200, "", id)
          /\ UNCHANGED trips
  /\ UNCHANGED <<tz, callVars, raceVars>>

\* DELETE /api/itineraries/:id
removeDirect(id, u) ==
  /\ IF ~itineraries[id].exists THEN Refused("remove", "", 404, "NOT_FOUND")
     ELSE /\ clock < MaxClock
          /\ itineraries' = deleteItinerary(itineraries, id)
          /\ clock' = clock + 1
          /\ served' = Served("remove", "", 200, "", id)
          /\ UNCHANGED trips
  /\ UNCHANGED <<tz, callVars, raceVars>>

\* POST /api/itineraries/:id/enrich-with-ai
enrichWithAIDirect(id, u, modelHint) ==
  /\ LET it == getItineraryById(itineraries, id)
         op == "enrichWithAI"
         found == it.tripId \in TripIds /\ trips[it.tripId].exists
     IN IF ~it.exists THEN Refused(op, "", 404, "ITINERARY_NOT_FOUND")
        ELSE IF ~found THEN Refused(op, "", 404, "TRIP_NOT_FOUND_FOR_ITINERARY")
        ELSE LET e == enrichItineraryWithAI(
                        [id |-> id, data |-> it.data], trips[it.tripId].fields,
                        u, [k |-> "obj", modelHint |-> modelHint])
             IN IF e.threw
                THEN Refused(op, "", 500, "INTERNAL_ERROR")
                ELSE /\ clock < MaxClock
                     /\ itineraries' =
                          updateItinerary(itineraries, id,
                            [NoPatch EXCEPT
                               !.data = Given([k |-> "obj", days |-> e.data.days]),
                               !.aiModelUsed = Given(e.aiModelUsed),
                               !.score = Given(Num(e.score))],
                            clock)
                     /\ clock' = clock + 1
                     /\ served' = Served(op, "", 200, "", id)
                     /\ UNCHANGED trips
  /\ UNCHANGED <<tz, callVars, raceVars>>

NextDirect ==
  \/ \E tripId \in TripIds, data \in CreateBodies, u \in ReqUsers :
       createDirect(tripId, data, u)
  \/ \E id \in ItineraryIds, u \in ReqUsers : getByIdDirect(id, u)
  \/ \E tripId \in TripIds \cup {""}, u \in ReqUsers : listDirect(tripId, u)
  \/ \E id \in ItineraryIds, u \in ReqUsers, body \in PatchBodies :
       updateDirect(id, u, body)
  \/ \E id \in ItineraryIds, u \in ReqUsers : removeDirect(id, u)
  \/ \E id \in ItineraryIds, u \in ReqUsers, modelHint \in ApiModelHints :
       enrichWithAIDirect(id, u, modelHint)

SpecDirect == Init /\ [][NextDirect]_vars

----------------------------------------------------------------------------
(* Who may read and write an itinerary *)

\* the users that are no admin
NonAdmins == {u \in ReqUsers : getAuthInfo(u).role # "admin"}

\* the trip exists and is the user's
Owns(u, tripId) ==
  tripId \in TripIds /\ trips[tripId].exists /\ trips[tripId].userId = u.id

\* the step answers 403 FORBIDDEN_TRIP_OWNER, or 404 TRIP_NOT_FOUND when the
\* trip does not exist, without content and without changing an itinerary
RejectedFor(tripId) ==
  /\ itineraries' = itineraries
  /\ served'.id = 0 /\ served'.param = ""
  /\ IF tripId \in TripIds /\ trips[tripId].exists
     THEN served'.status = 403 /\ served'.error = "FORBIDDEN_TRIP_OWNER"
     ELSE served'.status = 404 /\ served'.error = "TRIP_NOT_FOUND"

\* C23: every request of a user who is no admin for an itinerary of a trip
\* that is not theirs (GET, PATCH, DELETE, enrich-with-ai), or to create or
\* list the itineraries of such a trip, is answered 403 FORBIDDEN_TRIP_OWNER
\* (404 TRIP_NOT_FOUND when the trip does not exist), returns no content and
\* changes no itinerary.
C23_NonOwnerRejected ==
  [][\A u \in NonAdmins :
       /\ \A id \in ItineraryIds :
            /\ itineraries[id].exists /\ ~Owns(u, itineraries[id].tripId)
            /\ \/ getByIdDirect(id, u)
               \/ removeDirect(id, u)
               \/ \E body \in PatchBodies : updateDirect(id, u, body)
               \/ \E modelHint \in ApiModelHints : enrichWithAIDirect(id, u, modelHint)
            => RejectedFor(itineraries[id].tripId)
       /\ \A tripId \in TripIds :
            /\ ~Owns(u, tripId)
            /\ \/ listDirect(tripId, u)
               \/ \E data \in CreateBodies : createDirect(tripId, data, u)
            => RejectedFor(tripId)
  ]_vars

\* the handlers that call checkTripOwnership do reject those requests, and
\* they refuse no request of an admin for an existing trip
C23_CheckedHandlers ==
  [][/\ \A u \in NonAdmins :
          /\ \A id \in ItineraryIds :
               /\ itineraries[id].exists /\ ~Owns(u, itineraries[id].tripId)
               /\ \/ getById(id, u)
                  \/ remove(id, u)
                  \/ \E body \in PatchBodies : update(id, u, body)
                  \/ \E modelHint \in ApiModelHints : enrichWithAI(id, u, modelHint)
               => RejectedFor(itineraries[id].tripId)
          /\ \A tripId \in TripIds :
               /\ ~Owns(u, tripId)
               /\ \/ list(tripId, u)
                  \/ \E data \in ApiCreateBodies : create(tripId, data, u)
               => RejectedFor(tripId)
     /\ \A u \in ReqUsers \ NonAdmins :
          /\ \A id \in ItineraryIds :
               /\ itineraries[id].exists
               /\ itineraries[id].tripId \in TripIds
               /\ trips[itineraries[id].tripId].exists
               /\ \/ getById(id, u)
                  \/ remove(id, u)
                  \/ \E body \in PatchBodies : update(id, u, body)
                  \/ \E modelHint \in ApiModelHints : enrichWithAI(id, u, modelHint)
               => served'.status = 200 /\ served'.id = id
          /\ \A tripId \in TripIds :
               /\ trips[tripId].exists
               /\ \/ list(tripId, u)
                  \/ \E data \in ApiCreateBodies : create(tripId, data, u)
               => served'.status \in {200, 201}
  ]_vars

\* with those handlers the cases happen: the itinerary of u1's trip is
\* stored and the request of another user has been answered 403
C23_RejectedWitness ==
  /\ served.status = 403
  /\ served.error = "FORBIDDEN_TRIP_OWNER"
  /\ served.op \in {"getById", "update", "remove", "enrichWithAI"}
  /\ \E id \in ItineraryIds : itineraries[id].exists /\ itineraries[id].tripId = "t1"

\* the itinerary of a trip of u1 is gone after a request that the handlers
\* of controllers/itineraryController.js served
C23_RemovedWitness ==
  /\ served.op = "remove"
  /\ served.status = 200
  /\ itineraries[served.id] = DeletedDoc

----------------------------------------------------------------------------
(* The functions of the itinerary service called one after the other *)

\* the data passed to updateItinerary: nothing, each key alone, two keys
\* together, and a score that is a string or null
ServicePatches ==
  {NoPatch,
   [NoPatch EXCEPT !.tripId = Given("t2")],
   [NoPatch EXCEPT !.generatedAt = Given(7)],
   [NoPatch EXCEPT !.data = Given([k |-> "obj", days |-> Arr(<<>>)])],
   [NoPatch EXCEPT !.aiModelUsed = Given(<<"gemini">>), !.score = Given(Num(90))],
   [NoPatch EXCEPT !.score = Given(NumString(50))],
   [NoPatch EXCEPT !.score = Given(Null)]}

\* createItinerary(data) for a trip, with a score or without
createItineraryCall(tripId, score) ==
  /\ clock < MaxClock
  /\ NewId(itineraries) \in ItineraryIds
  /\ itineraries' =
       createItinerary(itineraries, NewId(itineraries),
         [tripId |-> tripId, generatedAt |-> NotGiven(0),
          data |-> CHOOSE data \in CreateBodies : TRUE,
          aiModelUsed |-> <<>>, score |-> score],
         clock)
  /\ clock' = clock + 1
  /\ served' = Served("createItinerary", "", 0, "", NewId(itineraries))
  /\ UNCHANGED <<tz, callVars, raceVars, trips>>

\* updateItinerary(id, data): null for a missing document, else the document
\* after the patch
updateItineraryCall(id, data) ==
  /\ IF ~itineraries[id].exists
     THEN /\ served' = Served("updateItinerary", "", 0, "null", 0)
          /\ UNCHANGED <<itineraries, clock>>
     ELSE /\ clock < MaxClock
          /\ itineraries' = updateItinerary(itineraries, id, data, clock)
          /\ clock' = clock + 1
          /\ served' = Served("updateItinerary", "", 0, "", id)
  /\ UNCHANGED <<tz, callVars, raceVars, trips>>

\* deleteItinerary(id): false for a missing document, else true
deleteItineraryCall(id) ==
  /\ IF ~itineraries[id].exists
     THEN /\ served' = Served("deleteItinerary", "", 0, "false", 0)
          /\ UNCHANGED <<itineraries, clock>>
     ELSE /\ clock < MaxClock
          /\ itineraries' = deleteItinerary(itineraries, id)
          /\ clock' = clock + 1
          /\ served' = Served("deleteItinerary", "", 0, "true", id)
  /\ UNCHANGED <<tz, callVars, raceVars, trips>>

NextService ==
  \/ \E tripId \in {"t1", "t2"}, score \in {NoNum, Num(50)} :
       createItineraryCall(tripId, score)
  \/ \E id \in ItineraryIds, data \in ServicePatches : updateItineraryCall(id, data)
  \/ \E id \in ItineraryIds : deleteItineraryCall(id)

SpecService == Init /\ [][NextService]_vars

\* C24: updateItinerary(id, data) of a stored itinerary sets tripId,
\* generatedAt, data, aiModelUsed and score to the values of the keys that
\* data has (null for a score that is no number), sets updatedAt to the
\* current instant and changes nothing else of the document and no other
\* document; for an id without document it writes nothing and returns null.
C24_PatchOnly ==
  [][served'.op = "updateItinerary" =>
       \A id \in ItineraryIds, data \in ServicePatches :
         updateItineraryCall(id, data) =>
           LET old == itineraries[id]
               new == itineraries'[id]
           IN IF ~old.exists
              THEN itineraries' = itineraries /\ served'.error = "null"
              ELSE /\ new.exists
                   /\ new.tripId = IF data.tripId.in THEN data.tripId.v
                                   ELSE old.tripId
                   /\ new.generatedAt = IF data.generatedAt.in
                                        THEN data.generatedAt.v
                                        ELSE old.generatedAt
                   /\ new.data = IF data.data.in THEN data.data.v ELSE old.data
                   /\ new.aiModelUsed = IF data.aiModelUsed.in
                                        THEN data.aiModelUsed.v
                                        ELSE old.aiModelUsed
                   /\ new.score =
                        IF ~data.score.in THEN old.score
                        ELSE IF data.score.v \in {Num(50), Num(90)}
                        THEN data.score.v
                        ELSE Null
                   /\ new.updatedAt = clock /\ new.updatedAt > old.updatedAt
                   /\ new.createdAt = old.createdAt
                   /\ \A other \in ItineraryIds \ {id} :
                        itineraries'[other] = itineraries[other]
                   /\ served'.error = "" /\ served'.id = id
  ]_vars

\* C24 happens: a document of trip t1 has been patched one instant after its
\* creation and holds the score null next to the fields it was created with
C24_Witness ==
  /\ served.op = "updateItinerary"
  /\ served.error = ""
  /\ LET doc == itineraries[served.id]
     IN /\ doc.exists
        /\ doc.score = Null
        /\ doc.tripId = "t1"
        /\ doc.aiModelUsed = <<"rules">>
        /\ doc.createdAt = 0
        /\ doc.updatedAt = 1

\* the call for an id without document has returned null
C24_NullWitness ==
  /\ served.op = "updateItinerary"
  /\ served.error = "null"
  /\ \E id \in ItineraryIds : itineraries[id] = DeletedDoc

----------------------------------------------------------------------------
(* The endpoints POST /api/trips and PATCH /api/trips/:id *)

\* the bodies of POST /api/trips that tripCreateSchema admits: userId is a
\* required string of the body, here the id of another user and of no user
TripBodies ==
  {[userId |-> "u2", title |-> Str(<<"Viaje a", SP, "Salta">>),
    startDate |-> Iso(BaseDay * HoursPerDay),
    endDate |-> Iso((BaseDay + 1) * HoursPerDay),
    budget |-> NoNum, interests |-> Arr(<<>>)],
   [userId |-> "nobody", title |-> Str(<<"Salta">>),
    startDate |-> Iso(BaseDay * HoursPerDay),
    endDate |-> Iso(BaseDay * HoursPerDay),
    budget |-> Num(SmallBudget), interests |-> Arr(<<"comida">>)]}

\* the bodies of PATCH /api/trips/:id: every key is optional
NoTripPatch ==
  [userId |-> NotGiven(""), title |-> NotGiven(Undef), budget |-> NotGiven(NoNum)]

TripPatches ==
  {[NoTripPatch EXCEPT !.userId = Given("u2")],
   [NoTripPatch EXCEPT !.userId = Given("adm"), !.title = Given(Str(<<"Otro">>))],
   [NoTripPatch EXCEPT !.title = Given(Str(<<"Otro">>))],
   [NoTripPatch EXCEPT !.budget = Given(Num(BigBudget))]}

\* mutant: the userId taken from the body
createTripOfBody(col, id, data, userId) ==
  [col EXCEPT ![id] =
     TripDoc(data.userId,
             [k |-> "obj", startDate |-> data.startDate, endDate |-> data.endDate,
              budget |-> IF data.budget.k = "num" THEN data.budget ELSE Null,
              interests |-> data.interests, title |-> data.title])]

\* createTrip({ ...data, userId }): the userId of the request replaces the
\* one of the body
createTrip(col, id, data, userId) ==
  [col EXCEPT ![id] =
     TripDoc(userId,
             [k |-> "obj", startDate |-> data.startDate, endDate |-> data.endDate,
              budget |-> IF data.budget.k = "num" THEN data.budget ELSE Null,
              interests |-> data.interests, title |-> data.title])]

\* mutant: the userId of the patch written too
updateTripWithUserId(col, id, data) ==
  IF ~col[id].exists THEN col
  ELSE [col EXCEPT
          ![id].userId = IF data.userId.in THEN data.userId.v ELSE @,
          ![id].fields.title = IF data.title.in THEN data.title.v ELSE @,
          ![id].fields.budget =
            IF data.budget.in
            THEN (IF data.budget.v.k = "num" THEN data.budget.v ELSE Null)
            ELSE @]

\* updateTrip(id, data): the patch has the keys of data except userId
updateTrip(col, id, data) ==
  IF ~col[id].exists THEN col
  ELSE [col EXCEPT
          ![id].fields.title = IF data.title.in THEN data.title.v ELSE @,
          ![id].fields.budget =
            IF data.budget.in
            THEN (IF data.budget.v.k = "num" THEN data.budget.v ELSE Null)
            ELSE @]

\* req.user?.id || req.user?.sub || req.user?.uid || null
getUserIdFromRequest(u) == IF u.k = "obj" THEN u.id ELSE ""

\* the id of a new trip
NewTripId(col) ==
  IF \A id \in DOMAIN col : col[id].exists THEN ""
  ELSE CHOOSE id \in DOMAIN col : ~col[id].exists

\* POST /api/trips
tripCreate(u, body) ==
  /\ LET userId == getUserIdFromRequest(u)
         id == NewTripId(trips)
     IN IF userId = "" THEN Refused("tripCreate", "", 401, "UNAUTHORIZED")
        ELSE /\ id \in TripIds
             /\ trips' = createTrip(trips, id, body, userId)
             /\ served' = Served("tripCreate", id, 201, "", 0)
             /\ UNCHANGED <<itineraries, clock>>
  /\ UNCHANGED <<tz, callVars, raceVars>>

\* PATCH /api/trips/:id
tripUpdate(id, u, body) ==
  /\ LET userId == getUserIdFromRequest(u)
     IN IF userId = "" THEN Refused("tripUpdate", "", 401, "UNAUTHORIZED")
        ELSE IF ~trips[id].exists \/ trips[id].userId # userId
        THEN Refused("tripUpdate", "", 404, "NOT_FOUND")
        ELSE /\ trips' = updateTrip(trips, id, body)
             /\ served' = Served("tripUpdate", id, 200, "", 0)
             /\ UNCHANGED <<itineraries, clock>>
  /\ UNCHANGED <<tz, callVars, raceVars>>

NextTrips ==
  \/ \E u \in ReqUsers, body \in TripBodies : tripCreate(u, body)
  \/ \E id \in TripIds, u \in ReqUsers, body \in TripPatches : tripUpdate(id, u, body)

SpecTrips == Init /\ [][NextTrips]_vars

----------------------------------------------------------------------------
(* The trip an itinerary is attached to *)

\* the itineraries that the step wrote
Written == {id \in ItineraryIds : itineraries'[id] # itineraries[id] /\ itineraries'[id].exists}

\* C26: every itinerary that a request of a user who is no admin creates or
\* patches is attached, after the request, to a trip of that user.
C26_OwnTripOnly ==
  [][\A u \in NonAdmins :
       \/ \E tripId \in TripIds, data \in ApiCreateBodies : create(tripId, data, u)
       \/ \E id \in ItineraryIds, body \in PatchBodies : update(id, u, body)
       => \A id \in Written : Owns(u, itineraries'[id].tripId)
  ]_vars

\* it does hold for POST /api/itineraries and for the bodies of PATCH that
\* carry no tripId
C26_UnlessTripIdPatched ==
  [][\A u \in NonAdmins :
       \/ \E tripId \in TripIds, data \in ApiCreateBodies : create(tripId, data, u)
       \/ \E id \in ItineraryIds, body \in PatchBodies :
            ~body.tripId.in /\ update(id, u, body)
       => \A id \in Written : Owns(u, itineraries'[id].tripId)
  ]_vars

----------------------------------------------------------------------------
(* updateItinerary and deleteItinerary step by step: each await of the two
   functions is a step, and the steps of one call of each interleave *)

\* ref.set(patch, { merge: true }): the fields of the patch written over the
\* document, which is created with those fields alone when it does not exist
setMerge(col, id, data, now) ==
  LET base == IF col[id].exists THEN col[id] ELSE DeletedDoc
      patch == patchOf(base, data, now)
  IN [col EXCEPT ![id] =
        [exists |-> TRUE, tripId |-> patch.tripId,
         generatedAt |-> patch.generatedAt, data |-> patch.data,
         aiModelUsed |-> patch.aiModelUsed, score |-> patch.score,
         createdAt |-> base.createdAt, updatedAt |-> now]]

\* the data that enrichWithAI passes to updateItinerary for the stored
\* itinerary, its trip and the user
enrichedPatch(id, u) ==
  LET it == itineraries[id]
      e == enrichItineraryWithAI([id |-> id, data |-> it.data],
                                 trips[it.tripId].fields, u,
                                 [k |-> "obj", modelHint |-> Undef])
  IN [NoPatch EXCEPT !.data = Given([k |-> "obj", days |-> e.data.days]),
                     !.aiModelUsed = Given(e.aiModelUsed),
                     !.score = Given(Num(e.score))]

\* updateItinerary(id, data), first await: ref.get(); null is returned when
\* the document does not exist
updateItineraryGet(id, data) ==
  /\ updating.pc = "idle"
  /\ updating' = IF itineraries[id].exists
                 THEN [pc |-> "got", id |-> id, returned |-> "", data |-> data]
                 ELSE [pc |-> "done", id |-> id, returned |-> "null", data |-> data]
  /\ UNCHANGED <<tz, callVars, storeVars, deleting>>

\* second await: ref.set(patch, { merge: true })
updateItinerarySet ==
  /\ updating.pc = "got"
  /\ clock < MaxClock
  /\ itineraries' = setMerge(itineraries, updating.id, updating.data, clock)
  /\ clock' = clock + 1
  /\ updating' = [updating EXCEPT !.pc = "set"]
  /\ UNCHANGED <<tz, callVars, trips, served, deleting>>

\* third await: ref.get(), and the document is returned
updateItineraryReturn ==
  /\ updating.pc = "set"
  /\ updating' = [updating EXCEPT !.pc = "done", !.returned = "document"]
  /\ UNCHANGED <<tz, callVars, storeVars, deleting>>

\* deleteItinerary(id), first await: ref.get(); false is returned when the
\* document does not exist
deleteItineraryGet(id) ==
  /\ deleting.pc = "idle"
  /\ deleting' = IF itineraries[id].exists
                 THEN [pc |-> "got", id |-> id, returned |-> ""]
                 ELSE [pc |-> "done", id |-> id, returned |-> "false"]
  /\ UNCHANGED <<tz, callVars, storeVars, updating>>

\* second await: ref.delete(), and true is returned
deleteItineraryDelete ==
  /\ deleting.pc = "got"
  /\ itineraries' = [itineraries EXCEPT ![deleting.id] = DeletedDoc]
  /\ deleting' = [deleting EXCEPT !.pc = "done", !.returned = "true"]
  /\ UNCHANGED <<tz, callVars, trips, clock, served, updating>>

\* the itineraries are created by createItinerary; PATCH passes its body to
\* updateItinerary, and enrich-with-ai the enriched data
NextRace ==
  \/ \E tripId \in {"t1", "t2"}, score \in {NoNum, Num(50)} :
       createItineraryCall(tripId, score)
  \/ \E id \in ItineraryIds, body \in PatchBodies : updateItineraryGet(id, body)
  \/ \E id \in ItineraryIds, u \in ReqUsers :
       /\ itineraries[id].exists
       /\ updateItineraryGet(id, enrichedPatch(id, u))
  \/ updateItinerarySet
  \/ updateItineraryReturn
  \/ \E id \in ItineraryIds : deleteItineraryGet(id)
  \/ deleteItineraryDelete

SpecRace == Init /\ [][NextRace]_vars

\* C27: under every interleaving of a call of updateItinerary with a call of
\* deleteItinerary, every stored itinerary has a tripId and a createdAt, and
\* the itinerary of a delete that returned true is not stored.
C27_NoPartialDocument ==
  /\ \A id \in ItineraryIds :
       itineraries[id].exists =>
         itineraries[id].tripId # "" /\ itineraries[id].createdAt # Absent
  /\ deleting.pc = "done" /\ deleting.returned = "true" =>
       ~itineraries[deleting.id].exists

\* the two parts of it, one by one
C27_TripIdAndCreatedAt ==
  \A id \in ItineraryIds :
    itineraries[id].exists =>
      itineraries[id].tripId # "" /\ itineraries[id].createdAt # Absent
C27_DeletedStaysDeleted ==
  deleting.pc = "done" /\ deleting.returned = "true" =>
    ~itineraries[deleting.id].exists

\* the state the interleaving ends in: the delete returned true, the update
\* returned a document, and the store holds a document without tripId and
\* createdAt under the deleted id
C27_ResurrectedWitness ==
  /\ deleting.pc = "done" /\ deleting.returned = "true"
  /\ updating.pc = "done" /\ updating.returned = "document"
  /\ updating.id = deleting.id
  /\ itineraries[deleting.id].exists
  /\ itineraries[deleting.id].tripId = ""
  /\ itineraries[deleting.id].createdAt = Absent
  /\ itineraries[deleting.id].score = Num(90)

----------------------------------------------------------------------------
(* The length of the stored descriptions *)

\* the number of characters of a text: the positions c of its pieces i
Chars(s) ==
  Cardinality(UNION {{<<i, c>> : c \in 1..Len(s[i])} : i \in 1..Len(s)})

\* the descriptions of the stored itineraries
StoredDescriptions ==
  {d \in UNION {UNION {{p.description : p \in {day.periods.items[j] :
                                                 j \in 1..Len(day.periods.items)}} :
                        day \in {itineraries[id].data.days.items[i] :
                                   i \in 1..Len(itineraries[id].data.days.items)}} :
                id \in StoredIds(itineraries)} : d.k = "str"}

\* C28: every stored description has at least 3 and at most 2000
\* characters, whatever enrich-with-ai calls were served.
C28_WithinSchema ==
  \A d \in StoredDescriptions : Chars(d.s) >= MinChars /\ Chars(d.s) <= MaxChars

\* the lower bound alone does hold
C28_AtLeastMin ==
  \A d \in StoredDescriptions : Chars(d.s) >= MinChars

\* a description that had 2000 characters when it was created is stored
\* with more after one enrich-with-ai
C28_TooLongWitness ==
  /\ served.op = "enrichWithAI"
  /\ served.status = 200
  /\ \E d \in StoredDescriptions :
       /\ Chars(d.s) > MaxChars
       /\ SubSeq(d.s, 1, Len(TextOfChars(MaxChars))) = TextOfChars(MaxChars)

----------------------------------------------------------------------------
(* The budget and the sum of the estimated costs *)

\* the sum of estimatedCost over the periods of a list, and over the days
RECURSIVE SumOfPeriods(_)
SumOfPeriods(periods) ==
  IF periods = <<>> THEN 0
  ELSE (IF Head(periods).estimatedCost.k = "num"
        THEN Head(periods).estimatedCost.n ELSE 0) + SumOfPeriods(Tail(periods))

RECURSIVE SumOfDays(_)
SumOfDays(days) ==
  IF days = <<>> THEN 0
  ELSE SumOfPeriods(PeriodsOf(Head(days))) + SumOfDays(Tail(days))

\* C29: for a budget that is a positive number, the sum of the estimated
\* costs of the generated periods is at most half a unit per period away
\* from the budget: 2 * |sum - budget| <= 3 * dayCount.
C29_SumNearBudget ==
  Generated /\ trip.budget.k = "num" /\ trip.budget.n > 0 =>
    LET sum == SumOfDays(result.days)
        gap == IF sum >= trip.budget.n THEN sum - trip.budget.n
               ELSE trip.budget.n - sum
    IN 2 * gap <= 3 * Len(result.days)

\* C29 happens: a budget that thirty days do not divide evenly, so that the
\* sum is not the budget
C29_Witness ==
  /\ Generated
  /\ trip.budget.k = "num" /\ trip.budget.n > 0
  /\ Len(result.days) = MaxDayCount
  /\ SumOfDays(result.days) # trip.budget.n
  /\ SumOfDays(result.days) > 0

----------------------------------------------------------------------------
(* The model tag of an enriched itinerary *)

\* C30: after enrich-with-ai has answered 200 the stored aiModelUsed of the
\* itinerary is not "rules", whatever modelHint the body carried.
C30_EnrichedNotRules ==
  [][served'.op = "enrichWithAI" /\ served'.status = 200 =>
       itineraries'[served'.id].aiModelUsed # <<"rules">>]_vars

\* an enriched itinerary (score 90, descriptions rewritten) tagged "rules"
C30_RulesTagWitness ==
  \E id \in ItineraryIds :
    /\ itineraries[id].exists
    /\ itineraries[id].score = Num(90)
    /\ itineraries[id].aiModelUsed = <<"rules">>

====
